---- MODULE Spec2Model ----
(***************************************************************************)
(* Moderation pipeline of src/events/message.py (MessageEvent).            *)
(*                                                                         *)
(* Spec follows one message through the pipeline with client.storage       *)
(* available; SpecStorage adds the storage calls that raise.  SpecSpam,    *)
(* SpecRaid and SpecWindow follow several messages of one user one after   *)
(* the other, SpecConc several messages at once, SpecPart several users    *)
(* and guilds at once.  SpecLive is SpecStorage with the scheduling of     *)
(* asyncio.  SpecCurse and SpecCaps apply the detection part of            *)
(* check_for_curse_words and the condition of check_for_excessive_caps to  *)
(* one text; there a task is one evaluation of the function.  SpecChat is  *)
(* the chat list of src/app.py and SpecWeb the status flag of              *)
(* src/simple_web.py; there the one task is the state of the web process.  *)
(*                                                                         *)
(* Every inbound message is one task.  A task walks through handle and,    *)
(* for a command message, through run_moderation_checks; it yields at     *)
(* every await, and each platform call (discord API) may succeed or        *)
(* raise.  The warning ledger and the lookup table of timeout durations    *)
(* live in client.storage, whose code is not part of the sources.          *)
(*                                                                         *)
(* Time: the code compares a document's timestamp only with                *)
(* time.time() - timeframe.  Documents therefore carry their timestamp     *)
(* relative to the present instant (current_time = 0, timestamp <= 0),     *)
(* Tick(d) moves every stored timestamp d seconds into the past, and a     *)
(* timestamp older than every timeframe saturates at -MaxAge.              *)
(***************************************************************************)
EXTENDS Integers, Sequences, FiniteSets, TLC

VARIABLES
    tasks,              \* task id -> the pipeline run of one inbound message
    warnings,           \* storage ledger: <<guild_id, user_id>> -> warning count
    temporary_actions,  \* storage.db.temporary_actions: sequence of documents
    duration_table,     \* storage.get_timeout_duration's lookup table
    received,           \* number of messages received so far
    spam_seen,          \* history: <<guild, user, content_hash>> -> spam checks so far
    raid_seen           \* history: <<guild, user>> -> ages of the raid checks so far

vars == <<tasks, warnings, temporary_actions, duration_table, received,
          spam_seen, raid_seen>>

-----------------------------------------------------------------------------
(* Configuration of MessageEvent.__init__ *)
raid_threshold == 5
raid_timeframe == 5
spam_threshold == 5
spam_timeframe == 30
max_mentions == 5
max_emoji_percent == 40
max_caps_percent == 70
\* asyncio.sleep(5) before the warning notification is deleted
notify_delay == 5
\* datetime.timedelta(minutes=5) of the anti-raid timeout, in seconds
raid_timeout == 300
\* thresholds of the escalation code
curse_timeout_from == 2
curse_swap_from == 6
signal_timeout_from == 5
fuzzy_min_len == 3
caps_min_len == 10
fuzzy_ratio_tenths == 7

(* Bounds of the model *)
MaxMsgs == 1
MaxInitWarn == 5

MaxAge == spam_timeframe + 1
current_time == 0

Max(a, b) == IF a >= b THEN a ELSE b
Min(a, b) == IF a <= b THEN a ELSE b

Hashes == {"h1", "h2"}
Signals == <<"mentions", "spam", "emoji", "caps">>
SignalSet == {Signals[i] : i \in 1..Len(Signals)}

-----------------------------------------------------------------------------
(* storage.get_timeout_duration: a lookup table, monotonic in the count.   *)
(* The durations are the ones message.py renders (60, 1800, 3600, 7200,    *)
(* 10800).  Two tables are considered: one silent at count 1, and one that *)
(* already returns a duration at count 1.                                  *)
TableLate(count) ==
    CASE count <= 1 -> 0
      [] count = 2 -> 60
      [] count = 3 -> 1800
      [] count = 4 -> 3600
      [] count = 5 -> 7200
      [] OTHER -> 10800

TableEarly(count) ==
    CASE count <= 0 -> 0
      [] count = 1 -> 60
      [] count = 2 -> 1800
      [] count = 3 -> 3600
      [] count = 4 -> 7200
      [] OTHER -> 10800

DurationTables == {"late", "early"}

get_timeout_duration(count) ==
    IF duration_table = "late" THEN TableLate(count) ELSE TableEarly(count)

-----------------------------------------------------------------------------
(* Messages.  A message is described by what handle and the detectors read *)
(* of it.                                                                  *)
Msg(g, u, bot, content, prefixed, cmd, second, um, rm, reply, banned, h, ep, cp) ==
    [guild_id |-> g, user_id |-> u, author_bot |-> bot, has_content |-> content,
     prefixed |-> prefixed, cmd |-> cmd, second_user |-> second,
     user_mentions |-> um, role_mentions |-> rm, is_reply |-> reply,
     banned |-> banned, content_hash |-> h,
     emoji_percent |-> ep, caps_percent |-> cp]

NoGuild == "none"

\* a quiet plain message of user u
Plain(g, u, h) ==
    Msg(g, u, FALSE, TRUE, FALSE, "", FALSE, 0, 0, FALSE, FALSE, h, 0, 0)

\* a well-formed "<prefix>manage @user" command of user u
Manage(g, u, h) ==
    Msg(g, u, FALSE, TRUE, TRUE, "manage", FALSE, 1, 0, FALSE, FALSE, h, 0, 0)

-----------------------------------------------------------------------------
(* Tasks *)
Scopes == DOMAIN warnings
TaskIds == DOMAIN tasks

Idle ==
    [pc |-> "idle", msg |-> Plain("g1", "u1", "h1"), det |-> 0,
     executed |-> FALSE, replied |-> FALSE,
     curse_checked |-> FALSE, curse_found |-> FALSE, deleted |-> FALSE,
     raid_checked |-> FALSE, raid_fired |-> FALSE, raid_count |-> 0,
     raid_timeout |-> 0, escalation |-> "",
     ran |-> {}, fired |-> {}, warned |-> <<>>, timeouts |-> <<>>,
     roles_resolved |-> FALSE, role_removed |-> FALSE, role_added |-> FALSE,
     audited |-> FALSE, failed |-> FALSE,
     warning_count |-> 0, timeout_duration |-> 0, sleep_left |-> 0,
     spam_nth |-> 0, spam_first |-> 0, spam_spaced |-> FALSE, raid_nth |-> 0,
     similar_count |-> 0, storage_failed |-> FALSE, list_read |-> TRUE,
     attempted |-> {}, retried |-> FALSE]

NewTask(m) == [Idle EXCEPT !.pc = "handle", !.msg = m]

Finished(t) == tasks[t].pc \in {"idle", "done", "crashed"}

\* the moderation actions a run attempts (delete, warn, timeout, role change),
\* each with the detector that attempts it, and whether one was attempted twice
Attempt(task, acts) ==
    [task EXCEPT !.attempted = @ \cup acts,
                 !.retried = @ \/ (acts \cap task.attempted # {})]

\* faulty variant: the community is left out of the key
ScopeByUser(m) == <<"g1", m.user_id>>

\* lines 244-246, 399-401, 724-725: state is kept per (guild id, author id)
Scope(m) == <<m.guild_id, m.user_id>>

\* the next content-signal detector after detector number i, or the end of the run
AfterSignal(i) == IF i < Len(Signals) THEN [pc |-> "signal", det |-> i + 1]
                  ELSE [pc |-> "done", det |-> 0]

-----------------------------------------------------------------------------
(* MessageEvent.handle, lines 36-135: where a message goes first *)
\* faulty variant: the author is not looked at
IgnoredUnlessBot(m) == ~m.has_content \/ m.guild_id = NoGuild

\* line 42: if user.bot or not message.content or not guild_id: return
Ignored(m) == m.author_bot \/ ~m.has_content \/ m.guild_id = NoGuild

\* faulty variant: plain messages are sent through run_moderation_checks too
HandleRouteChecksAll(m) ==
    IF Ignored(m) THEN "done"
    ELSE IF m.prefixed THEN
        IF m.cmd = "" THEN "send_usage"
        ELSE IF m.cmd # "manage" THEN "send_usage"
        ELSE IF m.second_user THEN "done"
        ELSE IF m.is_reply /\ m.user_mentions = 0 THEN "resolve_reply"
        ELSE IF m.user_mentions = 0 THEN "send_usage"
        ELSE "get_command"
    ELSE "curse"

\* the aliases of CommandRegistry.get_command, command_registry.py lines 109-114
command_aliases == {"mod", "admin", "moderate", "moderation"}

\* faulty variant: handle lets the aliases of the registry through
HandleRouteAliases(m) ==
    IF Ignored(m) THEN "done"
    ELSE IF m.prefixed THEN
        IF m.cmd = "" THEN "send_usage"
        ELSE IF m.cmd # "manage" /\ m.cmd \notin command_aliases THEN "send_usage"
        ELSE IF m.second_user THEN "done"
        ELSE IF m.is_reply /\ m.user_mentions = 0 THEN "resolve_reply"
        ELSE IF m.user_mentions = 0 THEN "send_usage"
        ELSE "get_command"
    ELSE "signal"

\* faulty variant: a well-formed command goes to the curse check before it is
\* looked up and executed
HandleRouteCurseFirst(m) ==
    IF Ignored(m) THEN "done"
    ELSE IF m.prefixed THEN
        IF m.cmd = "" THEN "send_usage"
        ELSE IF m.cmd # "manage" THEN "send_usage"
        ELSE IF m.second_user THEN "done"
        ELSE IF m.is_reply /\ m.user_mentions = 0 THEN "resolve_reply"
        ELSE IF m.user_mentions = 0 THEN "send_usage"
        ELSE "curse"
    ELSE "signal"

HandleRoute(m) ==
    IF Ignored(m) THEN "done"
    ELSE IF m.prefixed THEN
        IF m.cmd = "" THEN "send_usage"
        ELSE IF m.cmd # "manage" THEN "send_usage"
        ELSE IF m.second_user THEN "done"
        ELSE IF m.is_reply /\ m.user_mentions = 0 THEN "resolve_reply"
        ELSE IF m.user_mentions = 0 THEN "send_usage"
        ELSE "get_command"
    ELSE "signal"

\* a new message arrives; discord.py starts handle for it
Receive(t, m, limit) ==
    /\ Finished(t)
    /\ received < limit
    /\ tasks' = [tasks EXCEPT ![t] = NewTask(m)]
    /\ received' = received + 1
    /\ UNCHANGED <<warnings, temporary_actions, duration_table, spam_seen, raid_seen>>

handle(t) ==
    /\ tasks[t].pc = "handle"
    /\ LET to == HandleRoute(tasks[t].msg) IN
       tasks' = [tasks EXCEPT ![t].pc = to,
                              ![t].det = IF to = "signal" THEN 1 ELSE 0]
    /\ UNCHANGED <<warnings, temporary_actions, duration_table, received,
                   spam_seen, raid_seen>>

\* lines 52, 61, 96: one channel.send, then return; a raise leaves the task
send_usage(t) ==
    /\ tasks[t].pc = "send_usage"
    /\ \E ok \in BOOLEAN :
         tasks' = [tasks EXCEPT ![t].pc = IF ok THEN "done" ELSE "crashed",
                                ![t].replied = ok]
    /\ UNCHANGED <<warnings, temporary_actions, duration_table, received,
                   spam_seen, raid_seen>>

\* lines 75-92: a reply without mentions; the replied-to author is appended
\* to message.mentions when the referenced message can be resolved
resolve_reply(t) ==
    /\ tasks[t].pc = "resolve_reply"
    /\ \E r \in {"author", "none", "error"} :
         tasks' = [tasks EXCEPT
            ![t].pc = IF r = "author" THEN "get_command" ELSE "send_usage",
            ![t].msg.user_mentions = IF r = "author" THEN @ + 1 ELSE @]
    /\ UNCHANGED <<warnings, temporary_actions, duration_table, received,
                   spam_seen, raid_seen>>

\* faulty variant: run_moderation_checks starts with the raid check
FirstCheckSkipsCurse == "raid"

\* line 141: the first check of run_moderation_checks
FirstCheck == "curse"

\* lines 99-127: the command is executed (or reported unavailable), and only
\* then run_moderation_checks is started with asyncio.create_task
execute_command(t) ==
    /\ tasks[t].pc = "get_command"
    /\ \E r \in {"executed", "error_replied", "unavailable_replied", "reply_failed"} :
         tasks' = [tasks EXCEPT
            ![t].pc = IF r = "reply_failed" THEN "crashed" ELSE FirstCheck,
            ![t].executed = (r = "executed"),
            ![t].replied = (r \in {"error_replied", "unavailable_replied"})]
    /\ UNCHANGED <<warnings, temporary_actions, duration_table, received,
                   spam_seen, raid_seen>>

-----------------------------------------------------------------------------
\* faulty variant: the total is set, not incremented
add_warning_sets(ledger, scope) == [ledger EXCEPT ![scope] = Max(@, 1)]

\* faulty variant: the count starts again after the fifth warning
add_warning_restarts(ledger, scope) ==
    [ledger EXCEPT ![scope] = IF @ >= signal_timeout_from THEN 1 ELSE @ + 1]

(* storage.add_warning: appends one warning and returns the new total *)
add_warning(ledger, scope) == [ledger EXCEPT ![scope] = @ + 1]

\* faulty variant: the result of the curse check is not looked at
AfterCurseFallsThrough(result) == "raid"

\* faulty variant: the curse check is repeated until it reports a violation
AfterCurseRetries(result) == IF result THEN "done" ELSE "curse"

(* run_moderation_checks, lines 137-152: what follows each check *)
AfterCurse(result) == IF result THEN "done" ELSE "raid"
AfterRaid(result) == IF result THEN "done" ELSE "signal"

\* faulty variant: the warning is added although the message could not be deleted
AfterDeleteWarnsAnyway(ok) == "curse_warn"

\* lines 237-244: a failed message.delete() returns False, as if nothing was found
AfterDelete(ok) == IF ok THEN "curse_warn" ELSE AfterCurse(FALSE)

\* faulty variant: an unreadable term list counts as a hit
CurseWordsFoundFailClosed(m, readable) == IF readable THEN m.banned ELSE TRUE

\* lines 164-234: curse_words after the try.  open("curse.txt") is inside the
\* try of line 167; when it raises, the except of line 229 prints and
\* curse_words is still empty
CurseWordsFound(m, readable) == readable /\ m.banned

\* check_for_curse_words, lines 160-241: the four strategies are summarised by
\* msg.banned; a hit deletes the message, and a failed delete returns False
curse_check(t, readable) ==
    /\ tasks[t].pc = "curse"
    /\ \/ /\ ~CurseWordsFound(tasks[t].msg, readable)
          /\ tasks' = [tasks EXCEPT ![t].pc = AfterCurse(FALSE),
                                    ![t].curse_checked = TRUE,
                                    ![t].list_read = readable]
       \/ /\ CurseWordsFound(tasks[t].msg, readable)
          /\ \E ok \in BOOLEAN :
               tasks' = [tasks EXCEPT ![t] =
                  [Attempt(@, {<<"curse", "delete">>}) EXCEPT
                     !.pc = AfterDelete(ok),
                     !.curse_checked = TRUE,
                     !.list_read = readable,
                     !.curse_found = TRUE,
                     !.deleted = ok,
                     !.failed = @ \/ ~ok]]
    /\ UNCHANGED <<warnings, temporary_actions, duration_table, received,
                   spam_seen, raid_seen>>

\* the term list is read at every check: it may be unreadable at any of them
check_for_curse_words(t) == \E readable \in BOOLEAN : curse_check(t, readable)

\* the check in the specifications that assume a readable term list
check_for_curse_words_read(t) == curse_check(t, TRUE)

\* lines 243-248
curse_warn(t) ==
    /\ tasks[t].pc = "curse_warn"
    /\ LET scope == Scope(tasks[t].msg)
           ledger == add_warning(warnings, scope) IN
       /\ warnings' = ledger
       /\ tasks' = [tasks EXCEPT ![t] =
             [Attempt(@, {<<"curse", "warn">>}) EXCEPT
                !.pc = "curse_notify",
                !.warning_count = ledger[scope],
                !.warned = Append(@, <<"curse", ledger[scope]>>)]]
    /\ UNCHANGED <<temporary_actions, duration_table, received, spam_seen, raid_seen>>

\* lines 250-264: the warning embed is sent (a raise leaves the task), then
\* the coroutine sleeps notify_delay seconds
curse_notify(t) ==
    /\ tasks[t].pc = "curse_notify"
    /\ \E ok \in BOOLEAN :
         tasks' = [tasks EXCEPT
            ![t].pc = IF ok THEN "curse_sleep" ELSE "crashed",
            ![t].sleep_left = IF ok THEN notify_delay ELSE 0,
            ![t].failed = @ \/ ~ok]
    /\ UNCHANGED <<warnings, temporary_actions, duration_table, received,
                   spam_seen, raid_seen>>

\* faulty variant: the delete after the sleep is aimed at the author's message
NoticeDeleteHitsMessage(detector) == <<detector, "delete">>

\* lines 265-268, 421-425 (and the same lines of the other detectors):
\* warning_message.delete(), the bot's own notification
NoticeDelete(detector) == <<detector, "delete_notification">>

\* lines 265-271: after the sleep the notification is deleted (errors are
\* ignored) and the duration is looked up
curse_lookup(t) ==
    /\ tasks[t].pc = "curse_sleep"
    /\ tasks[t].sleep_left = 0
    /\ tasks' = [tasks EXCEPT ![t] =
          [Attempt(@, {NoticeDelete("curse")}) EXCEPT
             !.pc = "curse_escalate",
             !.timeout_duration = get_timeout_duration(tasks[t].warning_count)]]
    /\ UNCHANGED <<warnings, temporary_actions, duration_table, received,
                   spam_seen, raid_seen>>

\* faulty variant: the timeout already applies at the first warning
CurseBranchFromFirst(warning_count, timeout_duration, resolved) ==
    IF timeout_duration > 0 THEN
        IF warning_count >= curse_swap_from THEN
            IF resolved THEN "swap" ELSE "timeout"
        ELSE IF warning_count >= curse_timeout_from - 1 THEN "timeout"
        ELSE "log"
    ELSE "none"

\* faulty variant: the timeout applies from the third warning only
CurseBranchFromThird(warning_count, timeout_duration, resolved) ==
    IF timeout_duration > 0 THEN
        IF warning_count >= curse_swap_from THEN
            IF resolved THEN "swap" ELSE "timeout"
        ELSE IF warning_count >= curse_timeout_from + 1 THEN "timeout"
        ELSE "log"
    ELSE "none"

\* faulty variant: the role swap is chosen without looking at the roles
CurseBranchAlwaysSwap(warning_count, timeout_duration, resolved) ==
    IF timeout_duration > 0 THEN
        IF warning_count >= curse_swap_from THEN "swap"
        ELSE IF warning_count >= curse_timeout_from THEN "timeout"
        ELSE "log"
    ELSE "none"

\* lines 273-315: which escalation the curse branch chooses
CurseBranch(warning_count, timeout_duration, resolved) ==
    IF timeout_duration > 0 THEN
        IF warning_count >= curse_swap_from THEN
            IF resolved THEN "swap" ELSE "timeout"
        ELSE IF warning_count >= curse_timeout_from THEN "timeout"
        ELSE "log"
    ELSE "none"

\* lines 273-334 and the except of line 380: the escalation itself
curse_escalate(t) ==
    /\ tasks[t].pc = "curse_escalate"
    /\ \E target \in BOOLEAN, penalty \in BOOLEAN :
       LET wc == tasks[t].warning_count
           td == tasks[t].timeout_duration
           br == CurseBranch(wc, td, target /\ penalty) IN
       \/ /\ br = "none"
          /\ tasks' = [tasks EXCEPT ![t].pc = AfterCurse(TRUE),
                                    ![t].escalation = br,
                                    ![t].roles_resolved = target /\ penalty]
       \/ /\ br = "log"
          /\ tasks' = [tasks EXCEPT ![t].pc = "curse_log",
                                    ![t].escalation = br,
                                    ![t].roles_resolved = target /\ penalty]
       \/ /\ br = "swap"
          \* remove_roles, add_roles, channel.send: the first raise ends the try
          /\ \E r \in {"remove_failed", "add_failed", "send_failed", "ok"} :
               tasks' = [tasks EXCEPT ![t] =
                  [Attempt(@, IF r = "remove_failed"
                              THEN {<<"curse", "remove_roles">>}
                              ELSE {<<"curse", "remove_roles">>, <<"curse", "add_roles">>})
                   EXCEPT
                     !.pc = IF r = "ok" THEN "curse_log" ELSE AfterCurse(TRUE),
                     !.escalation = br,
                     !.roles_resolved = target /\ penalty,
                     !.role_removed = (r # "remove_failed"),
                     !.role_added = (r \in {"send_failed", "ok"}),
                     !.failed = @ \/ (r # "ok")]]
       \/ /\ br = "timeout"
          \* author.timeout, channel.send
          /\ \E r \in {"timeout_failed", "send_failed", "ok"} :
               tasks' = [tasks EXCEPT ![t] =
                  [Attempt(@, {<<"curse", "timeout">>}) EXCEPT
                     !.pc = IF r = "ok" THEN "curse_log" ELSE AfterCurse(TRUE),
                     !.escalation = br,
                     !.roles_resolved = target /\ penalty,
                     !.timeouts = IF r = "timeout_failed" THEN @
                                  ELSE Append(@, <<"curse", td>>),
                     !.failed = @ \/ (r # "ok")]]
    /\ UNCHANGED <<warnings, temporary_actions, duration_table, received,
                   spam_seen, raid_seen>>

\* lines 336-383: the audit entry and the log-channel embed, inside the same try
curse_log(t) ==
    /\ tasks[t].pc = "curse_log"
    /\ \E ok \in BOOLEAN :
         tasks' = [tasks EXCEPT ![t].pc = AfterCurse(TRUE),
                                ![t].audited = TRUE,
                                ![t].failed = @ \/ ~ok]
    /\ UNCHANGED <<warnings, temporary_actions, duration_table, received,
                   spam_seen, raid_seen>>

-----------------------------------------------------------------------------
(* storage.db.temporary_actions *)
Doc(g, u, type, h, ts, window) ==
    [guild_id |-> g, user_id |-> u, action_type |-> type, content_hash |-> h,
     timestamp |-> ts, expires_at |-> ts + window]

Aged(doc, d) ==
    [doc EXCEPT !.timestamp = Max(@ - d, 0 - MaxAge), !.expires_at = Max(@ - d, 0 - 1)]

\* faulty variant: the count_documents filter with $gt instead of $gte
SpamQueryStrict(doc, g, u, h) ==
    /\ doc.guild_id = g
    /\ doc.user_id = u
    /\ doc.action_type = "spam_check"
    /\ doc.content_hash = h
    /\ doc.timestamp > current_time - spam_timeframe

\* faulty variant: the count_documents filter without the timestamp condition
SpamQueryAnyTime(doc, g, u, h) ==
    /\ doc.guild_id = g
    /\ doc.user_id = u
    /\ doc.action_type = "spam_check"
    /\ doc.content_hash = h

\* check_for_spam, lines 483-489: the count_documents filter
SpamQuery(doc, g, u, h) ==
    /\ doc.guild_id = g
    /\ doc.user_id = u
    /\ doc.action_type = "spam_check"
    /\ doc.content_hash = h
    /\ doc.timestamp >= current_time - spam_timeframe

\* faulty variant: the event is upserted by its key and timestamp, so that a
\* second event of the same instant replaces the first
SpamRecordUpsert(store, g, u, h) ==
    IF \E i \in 1..Len(store) :
          SpamQueryAnyTime(store[i], g, u, h) /\ store[i].timestamp = current_time
    THEN store
    ELSE Append(store, Doc(g, u, "spam_check", h, current_time, spam_timeframe))

\* check_for_spam, lines 473-489: insert_one, then count_documents
SpamRecord(store, g, u, h) ==
    Append(store, Doc(g, u, "spam_check", h, current_time, spam_timeframe))

SimilarCount(store, g, u, h) ==
    Cardinality({i \in 1..Len(store) : SpamQuery(store[i], g, u, h)})

\* check_for_raid_activity, lines 734-758: the delete_many filter, the
\* insert_one and the count_documents filter
RaidOutdated(doc, g, u) ==
    /\ doc.guild_id = g
    /\ doc.user_id = u
    /\ doc.action_type = "message"
    /\ doc.timestamp < current_time - raid_timeframe

RaidQuery(doc, g, u) ==
    /\ doc.guild_id = g
    /\ doc.user_id = u
    /\ doc.action_type = "message"
    /\ doc.timestamp >= current_time - raid_timeframe

RaidRecord(store, g, u) ==
    LET Keep(doc) == ~RaidOutdated(doc, g, u) IN
    Append(SelectSeq(store, Keep),
           Doc(g, u, "message", "", current_time, raid_timeframe))

MessageCount(store, g, u) ==
    Cardinality({i \in 1..Len(store) : RaidQuery(store[i], g, u)})

\* faulty variants: a threshold is compared with > instead of >=
SpamFiresAbove(similar_count) == similar_count > spam_threshold
RaidFiresAbove(message_count) == message_count > raid_threshold

\* lines 492 and 761: the thresholds
SpamFires(similar_count) == similar_count >= spam_threshold
RaidFires(message_count) == message_count >= raid_threshold

\* faulty variant: exactly max_mentions mentions already count as mass mentions
MentionsFireAtLimit(m) == m.user_mentions + m.role_mentions >= max_mentions

\* lines 390-392, 573, 654: the stateless content-signal conditions
MentionsFire(m) == m.user_mentions + m.role_mentions > max_mentions
EmojiFires(m) == m.emoji_percent > max_emoji_percent
CapsFire(m) == m.caps_percent > max_caps_percent

-----------------------------------------------------------------------------
(* History of the checks, kept beside the store: for every fingerprint the *)
(* number of spam checks, the age of the first and of the latest one, and  *)
(* whether every two consecutive checks were more than spam_timeframe      *)
(* apart; for every user the ages of the raid checks of the last           *)
(* raid_timeframe seconds.                                                 *)
NoSpamSeen == [n |-> 0, first |-> 0, last |-> 0, spaced |-> TRUE]

SpamSeenNow(h) ==
    [n |-> h.n + 1,
     first |-> IF h.n = 0 THEN 0 ELSE h.first,
     last |-> 0,
     spaced |-> h.spaced /\ (h.n = 0 \/ h.last > spam_timeframe)]

SpamSeenAged(h, d) ==
    IF h.n = 0 THEN h
    ELSE [h EXCEPT !.first = Min(@ + d, MaxAge), !.last = Min(@ + d, MaxAge)]

RaidSeenAged(ages, d) ==
    LET Recent(a) == a + d <= raid_timeframe
        kept == SelectSeq(ages, Recent) IN
    [i \in 1..Len(kept) |-> kept[i] + d]

-----------------------------------------------------------------------------
\* check_for_raid_activity, lines 723-761 (no await: one step)
check_for_raid_activity(t) ==
    /\ tasks[t].pc = "raid"
    /\ LET m == tasks[t].msg
           store == RaidRecord(temporary_actions, m.guild_id, m.user_id)
           message_count == MessageCount(store, m.guild_id, m.user_id)
           to == IF RaidFires(message_count) THEN "raid_timeout" ELSE AfterRaid(FALSE) IN
       /\ temporary_actions' = store
       /\ raid_seen' = [raid_seen EXCEPT ![Scope(m)] = Append(@, 0)]
       /\ tasks' = [tasks EXCEPT
             ![t].pc = to,
             ![t].det = IF to = "signal" THEN 1 ELSE 0,
             ![t].raid_checked = TRUE,
             ![t].raid_fired = RaidFires(message_count),
             ![t].raid_count = message_count,
             ![t].raid_nth = Len(raid_seen[Scope(m)]) + 1]
    /\ UNCHANGED <<warnings, duration_table, received, spam_seen>>

\* faulty variant: the anti-raid timeout is looked up like the other timeouts
RaidDurationFromTable(warning_count) == get_timeout_duration(warning_count + 1)

\* lines 765-766: the anti-raid timeout is timedelta(minutes=5), whatever the
\* author's warning count
RaidDuration(warning_count) == raid_timeout

\* lines 763-810: timeout, notification, audit entry, log embed in one try;
\* any raise is caught and the check returns False
raid_timeout_user(t) ==
    /\ tasks[t].pc = "raid_timeout"
    /\ \E r \in {"timeout_failed", "send_failed", "log_failed", "ok"} :
       LET to == AfterRaid(r = "ok") IN
         tasks' = [tasks EXCEPT ![t] =
            [Attempt(@, {<<"raid", "timeout">>}) EXCEPT
               !.pc = to,
               !.det = IF to = "signal" THEN 1 ELSE 0,
               !.raid_timeout = IF r = "timeout_failed" THEN 0
                                ELSE RaidDuration(warnings[Scope(tasks[t].msg)]),
               !.audited = (r \in {"log_failed", "ok"}),
               !.failed = @ \/ (r # "ok")]]
    /\ UNCHANGED <<warnings, temporary_actions, duration_table, received,
                   spam_seen, raid_seen>>

-----------------------------------------------------------------------------
(* The content-signal detectors.  The four functions share their shape:    *)
(* condition, channel warning, add_warning, log embed, sleep, escalation.  *)
SignalChecked(t, name, fires) ==
    LET i == tasks[t].det
        nxt == AfterSignal(i) IN
    [tasks[t] EXCEPT
        !.pc = IF fires THEN "signal_notify" ELSE nxt.pc,
        !.det = IF fires THEN i ELSE nxt.det,
        !.ran = @ \cup {name},
        !.fired = IF fires THEN @ \cup {name} ELSE @]

AtSignal(t, name) ==
    /\ tasks[t].pc = "signal"
    /\ Signals[tasks[t].det] = name

\* lines 385-392
check_for_mass_mentions(t) ==
    /\ AtSignal(t, "mentions")
    /\ tasks' = [tasks EXCEPT
          ![t] = SignalChecked(t, "mentions", MentionsFire(tasks[t].msg))]
    /\ UNCHANGED <<warnings, temporary_actions, duration_table, received,
                   spam_seen, raid_seen>>

\* lines 456-492 (insert_one and count_documents are not awaited: one step)
check_for_spam(t) ==
    /\ AtSignal(t, "spam")
    /\ LET m == tasks[t].msg
           key == <<m.guild_id, m.user_id, m.content_hash>>
           store == SpamRecord(temporary_actions, m.guild_id, m.user_id, m.content_hash)
           similar_count == SimilarCount(store, m.guild_id, m.user_id, m.content_hash)
           seen == SpamSeenNow(spam_seen[key]) IN
       /\ temporary_actions' = store
       /\ spam_seen' = [spam_seen EXCEPT ![key] = seen]
       /\ tasks' = [tasks EXCEPT
             ![t] = [SignalChecked(t, "spam", SpamFires(similar_count)) EXCEPT
                        !.similar_count = similar_count,
                        !.spam_nth = seen.n,
                        !.spam_first = seen.first,
                        !.spam_spaced = seen.spaced]]
    /\ UNCHANGED <<warnings, duration_table, received, raid_seen>>

\* lines 556-573
check_for_mass_emoji(t) ==
    /\ AtSignal(t, "emoji")
    /\ tasks' = [tasks EXCEPT
          ![t] = SignalChecked(t, "emoji", EmojiFires(tasks[t].msg))]
    /\ UNCHANGED <<warnings, temporary_actions, duration_table, received,
                   spam_seen, raid_seen>>

\* lines 637-654
check_for_excessive_caps(t) ==
    /\ AtSignal(t, "caps")
    /\ tasks' = [tasks EXCEPT
          ![t] = SignalChecked(t, "caps", CapsFire(tasks[t].msg))]
    /\ UNCHANGED <<warnings, temporary_actions, duration_table, received,
                   spam_seen, raid_seen>>

\* lines 394, 494, 575, 656: the channel warning; a raise leaves the task
signal_notify(t) ==
    /\ tasks[t].pc = "signal_notify"
    /\ \E ok \in BOOLEAN :
         tasks' = [tasks EXCEPT ![t].pc = IF ok THEN "signal_warn" ELSE "crashed",
                                ![t].failed = @ \/ ~ok]
    /\ UNCHANGED <<warnings, temporary_actions, duration_table, received,
                   spam_seen, raid_seen>>

\* lines 399-420 (and the same lines of the other three): add_warning, the
\* log embed (a raise leaves the task), then the sleep
signal_warn(t) ==
    /\ tasks[t].pc = "signal_warn"
    /\ LET scope == Scope(tasks[t].msg)
           ledger == add_warning(warnings, scope) IN
       /\ warnings' = ledger
       /\ \E ok \in BOOLEAN :
            tasks' = [tasks EXCEPT ![t] =
               [Attempt(@, {<<Signals[tasks[t].det], "warn">>}) EXCEPT
                  !.pc = IF ok THEN "signal_sleep" ELSE "crashed",
                  !.sleep_left = IF ok THEN notify_delay ELSE 0,
                  !.warning_count = ledger[scope],
                  !.warned = Append(@, <<Signals[tasks[t].det], ledger[scope]>>),
                  !.failed = @ \/ ~ok]]
    /\ UNCHANGED <<temporary_actions, duration_table, received, spam_seen, raid_seen>>

\* faulty variant: the content-signal timeout starts one warning early
SignalEscalatesEarly(warning_count) == warning_count >= signal_timeout_from - 1

\* lines 427, 527, 608, 689
SignalEscalates(warning_count) == warning_count >= signal_timeout_from

\* lines 421-454 (and the same lines of the other three): after the sleep the
\* notification is deleted (errors are ignored), then the escalation
signal_escalate(t) ==
    /\ tasks[t].pc = "signal_sleep"
    /\ tasks[t].sleep_left = 0
    /\ LET i == tasks[t].det
           nxt == AfterSignal(i)
           wc == tasks[t].warning_count
           td == IF SignalEscalates(wc) THEN get_timeout_duration(wc) ELSE 0 IN
       \/ /\ td = 0
          /\ tasks' = [tasks EXCEPT ![t] =
                [Attempt(@, {NoticeDelete(Signals[i])}) EXCEPT
                   !.pc = nxt.pc, !.det = nxt.det, !.timeout_duration = td]]
       \/ /\ td > 0
          /\ \E r \in {"timeout_failed", "send_failed", "ok"} :
               tasks' = [tasks EXCEPT ![t] =
                  [Attempt(@, {NoticeDelete(Signals[i]), <<Signals[i], "timeout">>}) EXCEPT
                     !.pc = nxt.pc, !.det = nxt.det,
                     !.timeout_duration = td,
                     !.timeouts = IF r = "timeout_failed" THEN @
                                  ELSE Append(@, <<Signals[i], td>>),
                     !.failed = @ \/ (r # "ok")]]
    /\ UNCHANGED <<warnings, temporary_actions, duration_table, received,
                   spam_seen, raid_seen>>

-----------------------------------------------------------------------------
\* d seconds pass
Tick(d) ==
    /\ temporary_actions' =
          [i \in 1..Len(temporary_actions) |-> Aged(temporary_actions[i], d)]
    /\ tasks' = [t \in TaskIds |->
                    [tasks[t] EXCEPT !.sleep_left = Max(@ - d, 0)]]
    /\ spam_seen' = [k \in DOMAIN spam_seen |-> SpamSeenAged(spam_seen[k], d)]
    /\ raid_seen' = [s \in DOMAIN raid_seen |-> RaidSeenAged(raid_seen[s], d)]
    /\ UNCHANGED <<warnings, duration_table, received>>

-----------------------------------------------------------------------------
(* Initial states.  The ledger and the temporary_actions collection are    *)
(* persistent: a run starts with the warnings of earlier runs, and either  *)
(* with no recent documents or right after a burst of four "manage"        *)
(* commands of the same text, which the raid and the spam check recorded.  *)
BurstSize == raid_threshold - 1

Burst(g, u, h) ==
    [i \in 1..(2 * BurstSize) |->
        IF i % 2 = 1 THEN Doc(g, u, "message", "", current_time, raid_timeframe)
        ELSE Doc(g, u, "spam_check", h, current_time, spam_timeframe)]

InitCommon(scopes, ids) ==
    /\ tasks = [t \in ids |-> Idle]
    /\ warnings \in [scopes -> 0..MaxInitWarn]
    /\ duration_table \in DurationTables
    /\ received = 0

InitEmptyStore(scopes) ==
    /\ temporary_actions = <<>>
    /\ spam_seen = [k \in {<<s[1], s[2], h>> : s \in scopes, h \in Hashes} |-> NoSpamSeen]
    /\ raid_seen = [s \in scopes |-> <<>>]

InitBurstStore(scopes) ==
    /\ temporary_actions = Burst("g1", "u1", "h1")
    /\ spam_seen = [k \in {<<s[1], s[2], h>> : s \in scopes, h \in Hashes} |->
                       IF k = <<"g1", "u1", "h1">>
                       THEN [n |-> BurstSize, first |-> 0, last |-> 0, spaced |-> FALSE]
                       ELSE NoSpamSeen]
    /\ raid_seen = [s \in scopes |->
                       IF s = <<"g1", "u1">> THEN [i \in 1..BurstSize |-> 0] ELSE <<>>]

OneScope == {<<"g1", "u1">>}

Init ==
    /\ InitCommon(OneScope, {1})
    /\ InitEmptyStore(OneScope) \/ InitBurstStore(OneScope)

(* The messages of Spec: every route of handle, and every detector at and  *)
(* just above its limit.                                                   *)
Quiet == Plain("g1", "u1", "h1")
Command == Manage("g1", "u1", "h1")

Messages ==
    { Quiet,
      [Quiet EXCEPT !.author_bot = TRUE],
      [Quiet EXCEPT !.has_content = FALSE],
      [Quiet EXCEPT !.guild_id = NoGuild],
      [Quiet EXCEPT !.banned = TRUE],
      [Quiet EXCEPT !.user_mentions = 3, !.role_mentions = 2],
      [Quiet EXCEPT !.user_mentions = 4, !.role_mentions = 2],
      [Quiet EXCEPT !.emoji_percent = max_emoji_percent],
      [Quiet EXCEPT !.emoji_percent = max_emoji_percent + 1],
      [Quiet EXCEPT !.caps_percent = max_caps_percent],
      [Quiet EXCEPT !.caps_percent = max_caps_percent + 1],
      [Quiet EXCEPT !.user_mentions = 6, !.emoji_percent = max_emoji_percent + 1,
                    !.caps_percent = max_caps_percent + 1],
      Command,
      [Command EXCEPT !.cmd = "", !.user_mentions = 0],
      [Command EXCEPT !.cmd = "help"],
      [Command EXCEPT !.cmd = "mod", !.banned = TRUE],
      [Command EXCEPT !.second_user = TRUE],
      [Command EXCEPT !.user_mentions = 0],
      [Command EXCEPT !.user_mentions = 0, !.is_reply = TRUE],
      [Command EXCEPT !.banned = TRUE],
      [Command EXCEPT !.user_mentions = 1, !.role_mentions = 5],
      [Command EXCEPT !.content_hash = "h2"] }

\* some coroutine is inside asyncio.sleep
Sleeping == \E t \in TaskIds : tasks[t].sleep_left > 0

Run(t) ==
    \/ handle(t)
    \/ send_usage(t)
    \/ resolve_reply(t)
    \/ execute_command(t)
    \/ check_for_curse_words(t)
    \/ curse_warn(t)
    \/ curse_notify(t)
    \/ curse_lookup(t)
    \/ curse_escalate(t)
    \/ curse_log(t)
    \/ check_for_raid_activity(t)
    \/ raid_timeout_user(t)
    \/ check_for_mass_mentions(t)
    \/ check_for_spam(t)
    \/ check_for_mass_emoji(t)
    \/ check_for_excessive_caps(t)
    \/ signal_notify(t)
    \/ signal_warn(t)
    \/ signal_escalate(t)

Next ==
    \/ \E t \in TaskIds, m \in Messages : Receive(t, m, MaxMsgs)
    \/ \E t \in TaskIds : Run(t)
    \/ Sleeping /\ Tick(notify_delay)

Spec == Init /\ [][Next]_vars

-----------------------------------------------------------------------------
(* SpecSpam: one user sends plain messages of two texts, one after the     *)
(* other, with nothing, half a spam_timeframe, a spam_timeframe or one     *)
(* second more between two steps.                                          *)
MaxBurst == 5

InitQuiet ==
    /\ tasks = [t \in {1} |-> Idle]
    /\ warnings = [s \in OneScope |-> 0]
    /\ duration_table = "late"
    /\ received = 0
    /\ InitEmptyStore(OneScope)

SpamMessages == {Plain("g1", "u1", "h1"), Plain("g1", "u1", "h2")}
SpamTicks == {spam_timeframe \div 2, spam_timeframe, spam_timeframe + 1}

NextSpam ==
    \/ \E t \in TaskIds, m \in SpamMessages : Receive(t, m, MaxBurst)
    \/ \E t \in TaskIds :
          \/ handle(t)
          \/ check_for_mass_mentions(t)
          \/ check_for_spam(t)
          \/ check_for_mass_emoji(t)
          \/ check_for_excessive_caps(t)
          \/ signal_notify(t)
          \/ signal_warn(t)
          \/ signal_escalate(t)
    \/ \E d \in SpamTicks : Tick(d)

SpecSpam == InitQuiet /\ [][NextSpam]_vars

(* SpecRaid: one user sends "manage" commands and plain messages of one    *)
(* text; raid_timeframe or more than spam_timeframe seconds pass between   *)
(* two messages or during a sleep, none while a check runs.                *)
\* no coroutine is between two awaits of a check
Quiescent == \A t \in TaskIds : Finished(t) \/ tasks[t].sleep_left > 0

RaidMessages == {Manage("g1", "u1", "h1"), Plain("g1", "u1", "h1")}
RaidTicks == {raid_timeframe, spam_timeframe + 1}

NextRaid ==
    \/ \E t \in TaskIds, m \in RaidMessages : Receive(t, m, MaxBurst)
    \/ \E t \in TaskIds :
          \/ handle(t)
          \/ execute_command(t)
          \/ check_for_curse_words_read(t)
          \/ check_for_raid_activity(t)
          \/ raid_timeout_user(t)
          \/ check_for_mass_mentions(t)
          \/ check_for_spam(t)
          \/ check_for_mass_emoji(t)
          \/ check_for_excessive_caps(t)
          \/ signal_notify(t)
          \/ signal_warn(t)
          \/ signal_escalate(t)
    \/ \E d \in RaidTicks : Quiescent /\ Tick(d)

SpecRaid == InitQuiet /\ [][NextRaid]_vars

(* SpecStorage: Spec, and client.storage may be unavailable: a call of    *)
(* the ledger or of the temporary_actions collection raises.  None of      *)
(* these calls is inside a try (log_moderation_action, lines 352 and 781,  *)
(* is: its failure is the log_failed / not-ok outcome of the actions       *)
(* above), so the exception leaves the check, and with it handle or the    *)
(* run_moderation_checks task.                                             *)
StorageRaised(t) ==
    [tasks[t] EXCEPT !.pc = "crashed", !.sleep_left = 0, !.failed = TRUE,
                     !.storage_failed = TRUE]

\* line 244: add_warning raises after the message was deleted
curse_warn_unavailable(t) ==
    /\ tasks[t].pc = "curse_warn"
    /\ tasks' = [tasks EXCEPT ![t] = Attempt(StorageRaised(t), {<<"curse", "warn">>})]
    /\ UNCHANGED <<warnings, temporary_actions, duration_table, received,
                   spam_seen, raid_seen>>

\* lines 736-758: delete_many, insert_one or count_documents raises
raid_record_unavailable(t) ==
    /\ tasks[t].pc = "raid"
    /\ tasks' = [tasks EXCEPT ![t] = StorageRaised(t)]
    /\ UNCHANGED <<warnings, temporary_actions, duration_table, received,
                   spam_seen, raid_seen>>

\* lines 473-489: insert_one or count_documents raises
spam_record_unavailable(t) ==
    /\ AtSignal(t, "spam")
    /\ tasks' = [tasks EXCEPT ![t] = [StorageRaised(t) EXCEPT !.ran = @ \cup {"spam"}]]
    /\ UNCHANGED <<warnings, temporary_actions, duration_table, received,
                   spam_seen, raid_seen>>

\* lines 399, 499, 580, 661: add_warning raises after the channel warning
signal_warn_unavailable(t) ==
    /\ tasks[t].pc = "signal_warn"
    /\ tasks' = [tasks EXCEPT ![t] =
          Attempt(StorageRaised(t), {<<Signals[tasks[t].det], "warn">>})]
    /\ UNCHANGED <<warnings, temporary_actions, duration_table, received,
                   spam_seen, raid_seen>>

\* lines 271, 429, 529, 610, 691: get_timeout_duration raises
lookup_unavailable(t) ==
    /\ \/ tasks[t].pc = "curse_sleep"
       \/ tasks[t].pc = "signal_sleep" /\ SignalEscalates(tasks[t].warning_count)
    /\ tasks[t].sleep_left = 0
    /\ tasks' = [tasks EXCEPT ![t] =
          Attempt(StorageRaised(t),
                  {NoticeDelete(IF tasks[t].pc = "curse_sleep" THEN "curse"
                                ELSE Signals[tasks[t].det])})]
    /\ UNCHANGED <<warnings, temporary_actions, duration_table, received,
                   spam_seen, raid_seen>>

NextStorage ==
    \/ Next
    \/ \E t \in TaskIds :
          \/ curse_warn_unavailable(t)
          \/ raid_record_unavailable(t)
          \/ spam_record_unavailable(t)
          \/ signal_warn_unavailable(t)
          \/ lookup_unavailable(t)

SpecStorage == Init /\ [][NextStorage]_vars

-----------------------------------------------------------------------------
(* SpecLive: SpecStorage with the scheduling of asyncio.  The event loop   *)
(* resumes a coroutine whose awaited call has returned or raised, and the  *)
(* timer of asyncio.sleep fires: a step of a run, or the passing of the    *)
(* notify_delay seconds, that stays possible is eventually taken.  Nothing *)
(* is assumed about the arrival of messages.  The messages are a reply     *)
(* without mentions, a command with a banned term, and a plain message     *)
(* that raises three content signals.                                      *)
LiveMessages ==
    { [Command EXCEPT !.user_mentions = 0, !.is_reply = TRUE],
      [Command EXCEPT !.banned = TRUE],
      [Quiet EXCEPT !.user_mentions = 6, !.emoji_percent = max_emoji_percent + 1,
                    !.caps_percent = max_caps_percent + 1] }

Step ==
    \/ \E t \in TaskIds :
          \/ Run(t)
          \/ curse_warn_unavailable(t)
          \/ raid_record_unavailable(t)
          \/ spam_record_unavailable(t)
          \/ signal_warn_unavailable(t)
          \/ lookup_unavailable(t)
    \/ Sleeping /\ Tick(notify_delay)

NextLive ==
    \/ \E t \in TaskIds, m \in LiveMessages : Receive(t, m, MaxMsgs)
    \/ Step

SpecLive == Init /\ [][NextLive]_vars /\ WF_vars(Step)

(* SpecWindow: one user sends "manage" commands of two texts, which are    *)
(* raid-checked and spam-checked, one after the other; between two         *)
(* commands no time, raid_timeframe, spam_timeframe or one second more     *)
(* passes.                                                                 *)
WindowMessages == {Manage("g1", "u1", "h1"), Manage("g1", "u1", "h2")}
WindowGaps == {raid_timeframe, spam_timeframe, spam_timeframe + 1}

\* d seconds pass after the run of a message has ended
Gap(d) ==
    /\ \A t \in TaskIds : tasks[t].pc \in {"done", "crashed"}
    /\ temporary_actions' =
          [i \in 1..Len(temporary_actions) |-> Aged(temporary_actions[i], d)]
    /\ tasks' = [t \in TaskIds |-> Idle]
    /\ spam_seen' = [k \in DOMAIN spam_seen |-> SpamSeenAged(spam_seen[k], d)]
    /\ raid_seen' = [s \in DOMAIN raid_seen |-> RaidSeenAged(raid_seen[s], d)]
    /\ UNCHANGED <<warnings, duration_table, received>>

NextWindow ==
    \/ \E t \in TaskIds, m \in WindowMessages : Receive(t, m, MaxBurst)
    \/ \E t \in TaskIds :
          \/ handle(t)
          \/ execute_command(t)
          \/ check_for_curse_words_read(t)
          \/ check_for_raid_activity(t)
          \/ raid_timeout_user(t)
          \/ check_for_mass_mentions(t)
          \/ check_for_spam(t)
          \/ check_for_mass_emoji(t)
          \/ check_for_excessive_caps(t)
          \/ signal_notify(t)
          \/ signal_warn(t)
          \/ signal_escalate(t)
    \/ Sleeping /\ Tick(notify_delay)
    \/ \E d \in WindowGaps : Gap(d)

SpecWindow == InitQuiet /\ [][NextWindow]_vars

(* SpecConc: several messages of one user are in the pipeline at once.     *)
(* discord.py starts one handle coroutine per message, and the coroutines  *)
(* of one event loop interleave at their awaits: every action above is the *)
(* code between two awaits.  Each task carries one message.                *)
MaxPipelines == 2

InitConc ==
    /\ tasks = [t \in 1..MaxPipelines |-> Idle]
    /\ warnings = [s \in OneScope |-> 0]
    /\ duration_table = "late"
    /\ received = 0
    /\ InitEmptyStore(OneScope)

ConcMessages ==
    { [Command EXCEPT !.banned = TRUE],
      [Quiet EXCEPT !.user_mentions = max_mentions + 1] }

\* the n-th message to arrive is carried by task n
ReceiveFresh(t, m) == t = received + 1 /\ Receive(t, m, MaxPipelines)

NextConc ==
    \/ \E t \in TaskIds, m \in ConcMessages : ReceiveFresh(t, m)
    \/ \E t \in TaskIds :
          \/ handle(t)
          \/ execute_command(t)
          \/ check_for_curse_words_read(t)
          \/ curse_warn(t)
          \/ curse_notify(t)
          \/ curse_lookup(t)
          \/ curse_escalate(t)
          \/ curse_log(t)
          \/ check_for_raid_activity(t)
          \/ check_for_mass_mentions(t)
          \/ check_for_spam(t)
          \/ check_for_mass_emoji(t)
          \/ check_for_excessive_caps(t)
          \/ signal_notify(t)
          \/ signal_warn(t)
          \/ signal_escalate(t)
    \/ Sleeping /\ Tick(notify_delay)

SpecConc == InitConc /\ [][NextConc]_vars

-----------------------------------------------------------------------------
(* SpecPart: interleaved pipelines of different (guild, user) pairs.  The  *)
(* first message is a command with a banned term of user u1 in guild g1,   *)
(* who has one warning already; the second is the same command of another  *)
(* user of g1 or of u1 in another guild; any further one is a plain        *)
(* message of one of these two, with the same text.                        *)
PartScopes == {<<"g1", "u1">>, <<"g1", "u2">>, <<"g2", "u1">>}
PartLedger == [s \in PartScopes |-> IF s = <<"g1", "u1">> THEN 1 ELSE 0]

InitPart ==
    /\ tasks = [t \in 1..MaxPipelines |-> Idle]
    /\ warnings = PartLedger
    /\ duration_table = "late"
    /\ received = 0
    /\ InitEmptyStore(PartScopes)

PartMessages(t) ==
    IF t = 1 THEN {[Command EXCEPT !.banned = TRUE]}
    ELSE {[IF t = 2 THEN [Command EXCEPT !.banned = TRUE] ELSE Quiet
              EXCEPT !.guild_id = s[1], !.user_id = s[2]] :
            s \in PartScopes \ {<<"g1", "u1">>}}

NextPart ==
    \/ \E t \in TaskIds : \E m \in PartMessages(t) : ReceiveFresh(t, m)
    \/ \E t \in TaskIds :
          \/ handle(t)
          \/ execute_command(t)
          \/ check_for_curse_words_read(t)
          \/ curse_warn(t)
          \/ curse_notify(t)
          \/ curse_lookup(t)
          \/ curse_escalate(t)
          \/ curse_log(t)
          \/ check_for_raid_activity(t)
          \/ check_for_mass_mentions(t)
          \/ check_for_spam(t)
          \/ check_for_mass_emoji(t)
          \/ check_for_excessive_caps(t)
    \/ Sleeping /\ Tick(notify_delay)

SpecPart == InitPart /\ [][NextPart]_vars

-----------------------------------------------------------------------------
(* The detection part of check_for_curse_words, lines 160-234, on the text *)
(* of a message.  A text is a sequence of characters; the banned terms are *)
(* the stripped, lower-cased lines of curse.txt.                           *)
Letters == {"a", "b", "c", "d", "e", "f", "g", "h", "i", "j", "k", "l", "m",
            "n", "o", "p", "q", "r", "s", "t", "u", "v", "w", "x", "y", "z"}
Digits == {"0", "1", "2", "3", "4", "5", "6", "7", "8", "9"}
Lowered == [A |-> "a", B |-> "b", D |-> "d", F |-> "f", I |-> "i", N |-> "n",
            O |-> "o", R |-> "r", W |-> "w"]

\* str.lower(), line 161
lower(content) ==
    [i \in 1..Len(content) |->
        IF content[i] \in DOMAIN Lowered THEN Lowered[content[i]] ELSE content[i]]

\* \w of the re module
IsWordChar(c) == c \in Letters \cup Digits \cup DOMAIN Lowered \cup {"_"}

\* re.findall(r'\b\w+\b', content), lines 172 and 190: the maximal runs of
\* word characters, in the order of the text
RECURSIVE findall_words(_, _, _)
findall_words(content, i, run) ==
    IF i > Len(content) THEN (IF run = <<>> THEN <<>> ELSE <<run>>)
    ELSE IF IsWordChar(content[i]) THEN findall_words(content, i + 1, Append(run, content[i]))
    ELSE (IF run = <<>> THEN <<>> ELSE <<run>>) \o findall_words(content, i + 1, <<>>)

InSeq(x, seq) == \E i \in 1..Len(seq) : seq[i] = x

\* the loops of lines 173-175, 193-200 and 206-208: every candidate that
\* passes the test is appended, once
RECURSIVE append_hits(_, _, _)
append_hits(curse_words, candidates, hits) ==
    IF candidates = <<>> THEN curse_words
    ELSE LET c == Head(candidates) IN
         append_hits(IF c \in hits /\ ~InSeq(c, curse_words)
                     THEN Append(curse_words, c) ELSE curse_words,
                     Tail(candidates), hits)

TermSet(local_curse_words) == {local_curse_words[i] : i \in 1..Len(local_curse_words)}

\* Method 1, lines 172-175
exact_words(curse_words, content, local_curse_words) ==
    append_hits(curse_words, findall_words(content, 1, <<>>), TermSet(local_curse_words))

\* faulty variant: the digit 0 is not normalised
leet_map_without_zero ==
    ("1" :> "i") @@ ("3" :> "e") @@ ("4" :> "a") @@ ("5" :> "s") @@
    ("6" :> "g") @@ ("7" :> "t") @@ ("8" :> "b") @@ ("@" :> "a") @@ ("$" :> "s")

\* lines 180-183
leet_map ==
    ("0" :> "o") @@ ("1" :> "i") @@ ("3" :> "e") @@ ("4" :> "a") @@ ("5" :> "s") @@
    ("6" :> "g") @@ ("7" :> "t") @@ ("8" :> "b") @@ ("@" :> "a") @@ ("$" :> "s")

\* lines 185-187: the replacements are made one after the other; no
\* replacement yields a character that a later one replaces
normalized_content(content) ==
    [i \in 1..Len(content) |->
        IF content[i] \in DOMAIN leet_map THEN leet_map[content[i]] ELSE content[i]]

\* Method 2, lines 190-200.  It runs when no word of the text is a term, so
\* a normalised word that is a term is never one of the words of the text
\* (line 196 yields -1) and the normalised word itself is appended
leet_words(curse_words, content, local_curse_words) ==
    append_hits(curse_words, findall_words(normalized_content(content), 1, <<>>),
                TermSet(local_curse_words))

\* line 205
Separators == {" ", "-", "_", "."}
no_spaces(content) == LET Kept(c) == c \notin Separators IN SelectSeq(content, Kept)

Contains(text, part) ==
    \E i \in 0..(Len(text) - Len(part)) : SubSeq(text, i + 1, i + Len(part)) = part

\* Method 3, lines 205-208
despaced_words(curse_words, content, local_curse_words) ==
    append_hits(curse_words, local_curse_words,
                {w \in TermSet(local_curse_words) : Contains(no_spaces(content), w)})

\* line 218: f"{first_char}.{{{1,{middle_len}}}}?{last_char}".  Between the
\* doubled braces the replacement field holds the expression 1,{middle_len},
\* a tuple of 1 and a one-element set, so for middle_len = 5 the string is
\* b.{(1, {5})}?d.  The re module reads it as: the first character, any
\* character, a literal "{", a group of "1", "," and middle_len blanks, an
\* optional "}", the last character.
Lit(c) == [kind |-> "lit", ch |-> c]
AnyChar == [kind |-> "any", ch |-> ""]
Opt(c) == [kind |-> "opt", ch |-> c]

group_text(middle_len) == <<"1", ",">> \o [i \in 1..middle_len |-> " "]

pattern(curse_word) ==
    LET first_char == curse_word[1]
        last_char == curse_word[Len(curse_word)]
        middle_len == Len(curse_word) - 2
        group == group_text(middle_len) IN
    <<Lit(first_char), AnyChar, Lit("{")>>
       \o [i \in 1..Len(group) |-> Lit(group[i])]
       \o <<Opt("}"), Lit(last_char)>>

\* re: does the pattern, from element k on, match the text at position i
RECURSIVE MatchesAt(_, _, _, _)
MatchesAt(pat, k, content, i) ==
    IF k > Len(pat) THEN TRUE
    ELSE CASE pat[k].kind = "lit" ->
                /\ i <= Len(content)
                /\ content[i] = pat[k].ch
                /\ MatchesAt(pat, k + 1, content, i + 1)
           [] pat[k].kind = "any" ->
                /\ i <= Len(content)
                /\ content[i] # "\n"
                /\ MatchesAt(pat, k + 1, content, i + 1)
           [] OTHER ->
                \/ /\ i <= Len(content)
                   /\ content[i] = pat[k].ch
                   /\ MatchesAt(pat, k + 1, content, i + 1)
                \/ MatchesAt(pat, k + 1, content, i)

\* re.findall(pattern, content), line 221: the pattern has one group, so the
\* matches are the texts of the group
matches(curse_word, content) ==
    IF \E i \in 1..Len(content) : MatchesAt(pattern(curse_word), 1, content, i)
    THEN {group_text(Len(curse_word) - 2)} ELSE {}

\* lines 213-227: which term the fuzzy pattern accepts
fuzzy_hit(curse_word, content) ==
    /\ Len(curse_word) > fuzzy_min_len
    /\ \E match \in matches(curse_word, content) :
          Len(match) * 10 >= Len(curse_word) * fuzzy_ratio_tenths

\* Method 4, lines 212-227 (a term is appended once for each time it is listed)
fuzzy_words(curse_words, content, local_curse_words) ==
    LET Hit(w) == fuzzy_hit(w, content) IN
    curse_words \o SelectSeq(local_curse_words, Hit)

\* faulty variant: a later method does not look at what was found before
NothingFoundYetIgnored(curse_words) == TRUE

\* lines 178, 203, 211: if not curse_words
NothingFoundYet(curse_words) == curse_words = <<>>

(* SpecCurse: one scan of one text against one list of terms.  The texts   *)
(* are the ones of the documentation of the four methods and every text of *)
(* at most MaxLen characters over a small alphabet.                        *)
MaxLen == 4

Alphabet == {"d", "a", "m", "n", "4", "*", " "}

Corpus ==
    { <<"b", "4", "d", "w", "0", "r", "d">>,
      <<"t", "h", "i", "s", " ", "i", "s", " ", "f", "i", "n", "e">>,
      <<"b", " ", "a", " ", "d", " ", "w", " ", "o", " ", "r", " ", "d">>,
      <<"b", "a", "d", "w", "o", "r", "d">>,
      <<"B", "A", "D", "W", "O", "R", "D">>,
      <<"b", "*", "d", "w", "*", "r", "d">>,
      <<"b", "a", "d", "-", "w", "o", "r", "d">>,
      <<"b", "x", "{", "1", ",", " ", " ", " ", " ", " ", "}", "d">>,
      <<"d", "x", "{", "1", ",", " ", " ", "n">> }

Contents == Corpus \cup UNION {[1..k -> Alphabet] : k \in 1..MaxLen}

TermLists ==
    { <<<<"b", "a", "d", "w", "o", "r", "d">>>>,
      <<<<"d", "a", "m", "n">>>>,
      <<<<"a", "s", "s">>, <<"d", "a", "m", "n">>>>,
      \* a blank line of curse.txt: line.strip() leaves the empty term (169)
      <<<<"d", "a", "m", "n">>, <<>>>> }

Scan(text, terms) ==
    [pc |-> "open", content |-> lower(text), local_curse_words |-> terms,
     curse_words |-> <<>>, evaluated |-> <<>>, found_by |-> 0, list_read |-> TRUE]

InitCurse ==
    /\ \E text \in Contents, terms \in TermLists :
          tasks = [t \in {1} |-> Scan(text, terms)]
    /\ warnings = [s \in OneScope |-> 0]
    /\ duration_table = "late"
    /\ received = 0
    /\ InitEmptyStore(OneScope)

Scanned(t, method, found) ==
    [tasks[t] EXCEPT
        !.curse_words = found,
        !.evaluated = Append(@, method),
        !.found_by = IF @ = 0 /\ found # <<>> THEN method ELSE @]

\* lines 167-169: the list is read inside the try; a raise leaves the try
open_curse_txt(t) ==
    /\ tasks[t].pc = "open"
    /\ \E readable \in BOOLEAN :
         tasks' = [tasks EXCEPT ![t].pc = IF readable THEN "method1" ELSE "scanned",
                                ![t].list_read = readable]
    /\ UNCHANGED <<warnings, temporary_actions, duration_table, received,
                   spam_seen, raid_seen>>

method1(t) ==
    /\ tasks[t].pc = "method1"
    /\ LET found == exact_words(tasks[t].curse_words, tasks[t].content,
                                tasks[t].local_curse_words) IN
       tasks' = [tasks EXCEPT ![t] = [Scanned(t, 1, found) EXCEPT !.pc = "method2"]]
    /\ UNCHANGED <<warnings, temporary_actions, duration_table, received,
                   spam_seen, raid_seen>>

method2(t) ==
    /\ tasks[t].pc = "method2"
    /\ LET found == leet_words(tasks[t].curse_words, tasks[t].content,
                               tasks[t].local_curse_words) IN
       tasks' = [tasks EXCEPT ![t] =
          [IF NothingFoundYet(tasks[t].curse_words) THEN Scanned(t, 2, found)
           ELSE tasks[t] EXCEPT !.pc = "method3"]]
    /\ UNCHANGED <<warnings, temporary_actions, duration_table, received,
                   spam_seen, raid_seen>>

method3(t) ==
    /\ tasks[t].pc = "method3"
    /\ LET found == despaced_words(tasks[t].curse_words, tasks[t].content,
                                   tasks[t].local_curse_words) IN
       tasks' = [tasks EXCEPT ![t] =
          [IF NothingFoundYet(tasks[t].curse_words) THEN Scanned(t, 3, found)
           ELSE tasks[t] EXCEPT !.pc = "method4"]]
    /\ UNCHANGED <<warnings, temporary_actions, duration_table, received,
                   spam_seen, raid_seen>>

method4(t) ==
    /\ tasks[t].pc = "method4"
    /\ LET found == fuzzy_words(tasks[t].curse_words, tasks[t].content,
                                tasks[t].local_curse_words) IN
       tasks' = [tasks EXCEPT ![t] =
          [IF NothingFoundYet(tasks[t].curse_words) THEN Scanned(t, 4, found)
           ELSE tasks[t] EXCEPT !.pc = "scanned"]]
    /\ UNCHANGED <<warnings, temporary_actions, duration_table, received,
                   spam_seen, raid_seen>>

NextCurse ==
    \E t \in TaskIds :
       \/ open_curse_txt(t)
       \/ method1(t)
       \/ method2(t)
       \/ method3(t)
       \/ method4(t)

SpecCurse == InitCurse /\ [][NextCurse]_vars

-----------------------------------------------------------------------------
(* The condition of check_for_excessive_caps, lines 637-654.  The function *)
(* only counts characters, so a text is described by how many characters   *)
(* it has of each kind: upper-case letters (isupper and isalpha),          *)
(* other letters (isalpha only), upper-case symbols such as a Roman        *)
(* numeral or a circled capital (isupper only), and all others.            *)
MaxChars == 11

CapsText(upper_letters, other_letters, upper_symbols, others) ==
    [upper_letters |-> upper_letters, other_letters |-> other_letters,
     upper_symbols |-> upper_symbols, others |-> others]

CapsTexts ==
    {CapsText(a, b, c, d) : a \in 0..MaxChars, b \in 0..MaxChars,
                            c \in 0..MaxChars, d \in 0..MaxChars}

\* len(message.content), line 642
content_len(text) ==
    text.upper_letters + text.other_letters + text.upper_symbols + text.others

\* line 645: sum(1 for c in message.content if c.isupper())
uppercase_count(text) == text.upper_letters + text.upper_symbols

\* line 646: sum(1 for c in message.content if c.isalpha())
letter_count(text) == text.upper_letters + text.other_letters

\* faulty variant: exactly max_caps_percent already counts as excessive
ExceedsCapsLimitAtLimit(uppercase, letters) == uppercase * 100 >= max_caps_percent * letters

\* lines 652-654: (uppercase_count / letter_count) * 100 > max_caps_percent.
\* For every count up to 4000 letters the float comparison of Python agrees
\* with the exact one
ExceedsCapsLimit(uppercase, letters) == uppercase * 100 > max_caps_percent * letters

\* lines 641-654, with the early returns of lines 642 and 649
caps_condition(text) ==
    IF content_len(text) < caps_min_len THEN FALSE
    ELSE IF letter_count(text) = 0 THEN FALSE
    ELSE ExceedsCapsLimit(uppercase_count(text), letter_count(text))

InitCaps ==
    /\ \E text \in CapsTexts :
          /\ content_len(text) \in 1..MaxChars
          /\ tasks = [t \in {1} |-> [pc |-> "caps", text |-> text, fired |-> FALSE]]
    /\ warnings = [s \in OneScope |-> 0]
    /\ duration_table = "late"
    /\ received = 0
    /\ InitEmptyStore(OneScope)

caps_check(t) ==
    /\ tasks[t].pc = "caps"
    /\ tasks' = [tasks EXCEPT ![t].pc = "checked",
                              ![t].fired = caps_condition(tasks[t].text)]
    /\ UNCHANGED <<warnings, temporary_actions, duration_table, received,
                   spam_seen, raid_seen>>

NextCaps == \E t \in TaskIds : caps_check(t)

SpecCaps == InitCaps /\ [][NextCaps]_vars


-----------------------------------------------------------------------------
(* SpecChat: the chat list of one browser session of src/app.py.  The one  *)
(* task holds the file chats_<user_session_id>.json, the Flask session's   *)
(* current_chat_id and the last response of /chat.  Requests are served    *)
(* one after the other; uuid4 identifiers are numbered in order of issue.  *)
cleanup_min_messages == 5
title_max == 50
MaxChats == 3
MaxTurns == 5

\* str.strip() of line 121
RECURSIVE lstrip(_)
lstrip(text) ==
    IF text # <<>> /\ Head(text) = " " THEN lstrip(Tail(text)) ELSE text
RECURSIVE rstrip(_)
rstrip(text) ==
    IF text # <<>> /\ text[Len(text)] = " "
    THEN rstrip(SubSeq(text, 1, Len(text) - 1)) ELSE text
strip(text) == rstrip(lstrip(text))

UserTexts == { <<>>, <<" ">>, <<"h", "i">>, <<" ", "h", "i", " ">> }
Advice == <<"o", "k">>
NewChatTitle == <<"N", "e", "w", " ", "C", "h", "a", "t">>

NoReply == [success |-> FALSE, chat_id |-> 0, message |-> <<>>, response |-> <<>>,
            created |-> FALSE]

\* lines 80-89: the new session record
new_session(id) ==
    [id |-> id, title |-> NewChatTitle, message_count |-> 0, messages |-> <<>>]

\* lines 139-143: the first chat of the list with the requested id (0: none)
find_chat(user_chats, chat_id) ==
    IF \E i \in 1..Len(user_chats) : user_chats[i].id = chat_id
    THEN CHOOSE i \in 1..Len(user_chats) :
            /\ user_chats[i].id = chat_id
            /\ \A j \in 1..(i - 1) : user_chats[j].id # chat_id
    ELSE 0

\* lines 72, 306: the chats that a clean-up keeps
kept_chats(user_chats) ==
    LET Keeps(chat) == chat.message_count >= cleanup_min_messages IN
    SelectSeq(user_chats, Keeps)

\* line 177: user_message[:50] + ('...' if len(user_message) > 50 else '')
title_of(user_message) ==
    IF Len(user_message) > title_max
    THEN SubSeq(user_message, 1, title_max) \o <<".", ".", ".">>
    ELSE user_message

\* lines 149-178: the two messages, the count and the title of one exchange
with_exchange(chat_session, user_message, bot_response) ==
    LET count == chat_session.message_count + 2 IN
    [chat_session EXCEPT
        !.messages = @ \o << <<"user", user_message>>, <<"bot", bot_response>> >>,
        !.message_count = count,
        !.title = IF @ = NewChatTitle /\ count >= 2 THEN title_of(user_message) ELSE @]

InitChat ==
    /\ tasks = [t \in {1} |->
                  [chats_file |-> <<>>, current_chat_id |-> 0, next_id |-> 1,
                   turns |-> 0, reply |-> NoReply]]
    /\ warnings = [s \in OneScope |-> 0]
    /\ duration_table = "late"
    /\ received = 0
    /\ InitEmptyStore(OneScope)

\* lines 100-114: GET /
index(t) ==
    /\ tasks[t].turns < MaxTurns
    /\ tasks[t].next_id <= MaxChats
    /\ LET id == tasks[t].next_id IN
       tasks' = [tasks EXCEPT
          ![t].chats_file = Append(kept_chats(@), new_session(id)),
          ![t].current_chat_id = id,
          ![t].next_id = id + 1,
          ![t].turns = @ + 1,
          ![t].reply = NoReply]
    /\ UNCHANGED <<warnings, temporary_actions, duration_table, received,
                   spam_seen, raid_seen>>

\* lines 117-193 with create_new_chat_session (78-97): POST /chat
chat(t) ==
    /\ tasks[t].turns < MaxTurns
    /\ \E text \in UserTexts, requested \in 0..MaxChats, answered \in BOOLEAN :
       LET user_message == strip(text)
           chat_id == IF requested # 0 THEN requested ELSE tasks[t].current_chat_id
           user_chats == tasks[t].chats_file
           found == find_chat(user_chats, chat_id)
           id == tasks[t].next_id
           chat_session == IF found = 0 THEN new_session(id) ELSE user_chats[found]
           updated == with_exchange(chat_session, user_message, Advice)
       IN
       IF user_message = <<>>
       THEN \* line 124: 400
            tasks' = [tasks EXCEPT ![t].turns = @ + 1, ![t].reply = NoReply]
       ELSE /\ found = 0 => id <= MaxChats
            /\ tasks' = [tasks EXCEPT
                 \* line 93 saves the list with the new session; line 180 saves
                 \* the list that line 137 loaded, whose entry chat_session is
                 \* only when the chat was found in it
                 ![t].chats_file =
                     IF ~answered
                     THEN IF found = 0 THEN Append(user_chats, chat_session)
                          ELSE user_chats
                     ELSE IF found = 0 THEN user_chats
                          ELSE [user_chats EXCEPT ![found] = updated],
                 ![t].current_chat_id = IF found = 0 THEN id ELSE @,
                 ![t].next_id = IF found = 0 THEN id + 1 ELSE @,
                 ![t].turns = @ + 1,
                 ![t].reply =
                     IF answered
                     THEN [success |-> TRUE, chat_id |-> chat_session.id,
                           message |-> user_message, response |-> Advice,
                           created |-> (found = 0)]
                     ELSE NoReply]
    /\ UNCHANGED <<warnings, temporary_actions, duration_table, received,
                   spam_seen, raid_seen>>

\* lines 259-285: DELETE /chat/<chat_id>
delete_chat(t) ==
    /\ tasks[t].turns < MaxTurns
    /\ \E chat_id \in 1..MaxChats :
       LET Other(c) == c.id # chat_id IN
       tasks' = [tasks EXCEPT
          ![t].chats_file = SelectSeq(@, Other),
          ![t].turns = @ + 1,
          ![t].reply = NoReply]
    /\ UNCHANGED <<warnings, temporary_actions, duration_table, received,
                   spam_seen, raid_seen>>

\* lines 288-309: POST /cleanup-chats
cleanup_chats(t) ==
    /\ tasks[t].turns < MaxTurns
    /\ tasks' = [tasks EXCEPT
          ![t].chats_file = kept_chats(@),
          ![t].turns = @ + 1,
          ![t].reply = NoReply]
    /\ UNCHANGED <<warnings, temporary_actions, duration_table, received,
                   spam_seen, raid_seen>>

NextChat ==
    \E t \in TaskIds :
        \/ index(t)
        \/ chat(t)
        \/ delete_chat(t)
        \/ cleanup_chats(t)

SpecChat == InitChat /\ [][NextChat]_vars

-----------------------------------------------------------------------------
(* SpecWeb: the status flag of src/simple_web.py.  The one task holds the  *)
(* position of run_bot (called when the module is imported), the position  *)
(* of the thread start_bot, the global bot_started and the statuses that   *)
(* the page / has reported.  The two threads interleave statement by       *)
(* statement.                                                              *)
MaxViews == 4

\* lines 49-59: token.txt is missing, empty, or holds a token that the
\* platform accepts or rejects
Tokens == {"missing", "empty", "accepted", "rejected"}

InitWeb ==
    /\ \E token \in Tokens :
          tasks = [t \in {1} |->
                     [pc |-> "read_token", thread |-> "unstarted",
                      bot_started |-> FALSE, token |-> token, reports |-> <<>>]]
    /\ warnings = [s \in OneScope |-> 0]
    /\ duration_table = "late"
    /\ received = 0
    /\ InitEmptyStore(OneScope)

\* lines 49-59
read_token(t) ==
    /\ tasks[t].pc = "read_token"
    /\ tasks' = [tasks EXCEPT
          ![t].pc = IF tasks[t].token \in {"missing", "empty"}
                    THEN "returned" ELSE "create_bot"]
    /\ UNCHANGED <<warnings, temporary_actions, duration_table, received,
                   spam_seen, raid_seen>>

\* lines 61-69 and the except of line 83: ModerationBot(intents) may raise
create_bot(t) ==
    /\ tasks[t].pc = "create_bot"
    /\ \E ok \in BOOLEAN :
         tasks' = [tasks EXCEPT ![t].pc = IF ok THEN "start_thread" ELSE "returned"]
    /\ UNCHANGED <<warnings, temporary_actions, duration_table, received,
                   spam_seen, raid_seen>>

\* lines 77-79: bot_thread.start()
start_thread(t) ==
    /\ tasks[t].pc = "start_thread"
    /\ tasks' = [tasks EXCEPT ![t].pc = "mark_started", ![t].thread = "bot_run"]
    /\ UNCHANGED <<warnings, temporary_actions, duration_table, received,
                   spam_seen, raid_seen>>

\* line 82: bot_started = True
mark_started(t) ==
    /\ tasks[t].pc = "mark_started"
    /\ tasks' = [tasks EXCEPT ![t].pc = "returned", ![t].bot_started = TRUE]
    /\ UNCHANGED <<warnings, temporary_actions, duration_table, received,
                   spam_seen, raid_seen>>

\* line 74: bot.run(token) returns when the bot is closed, or raises (a
\* rejected token raises at login)
bot_run(t) ==
    /\ tasks[t].thread = "bot_run"
    /\ \E returns \in BOOLEAN :
         /\ tasks[t].token = "rejected" => ~returns
         /\ tasks' = [tasks EXCEPT ![t].thread = IF returns THEN "mark_stopped"
                                                 ELSE "raised"]
    /\ UNCHANGED <<warnings, temporary_actions, duration_table, received,
                   spam_seen, raid_seen>>

\* line 75: bot_started = False
mark_stopped(t) ==
    /\ tasks[t].thread = "mark_stopped"
    /\ tasks' = [tasks EXCEPT ![t].thread = "finished", ![t].bot_started = FALSE]
    /\ UNCHANGED <<warnings, temporary_actions, duration_table, received,
                   spam_seen, raid_seen>>

\* lines 22-26
status(started) == IF started THEN "running" ELSE "initializing"

\* lines 21-27: GET /, served once the module is imported (86-87)
web_index(t) ==
    /\ tasks[t].pc = "returned"
    /\ Len(tasks[t].reports) < MaxViews
    /\ tasks' = [tasks EXCEPT
          ![t].reports = Append(@, <<status(tasks[t].bot_started), tasks[t].thread>>)]
    /\ UNCHANGED <<warnings, temporary_actions, duration_table, received,
                   spam_seen, raid_seen>>

NextWeb ==
    \E t \in TaskIds :
        \/ read_token(t)
        \/ create_bot(t)
        \/ start_thread(t)
        \/ mark_started(t)
        \/ bot_run(t)
        \/ mark_stopped(t)
        \/ web_index(t)

SpecWeb == InitWeb /\ [][NextWeb]_vars

-----------------------------------------------------------------------------
(* Properties of one run of the pipeline *)
Started(t) == tasks[t].pc # "idle"
Ended(t) == tasks[t].pc \in {"done", "crashed"}
CurseWarned(t) == Len(tasks[t].warned) >= 1 /\ tasks[t].warned[1][1] = "curse"
CurseCount(t) == tasks[t].warned[1][2]
TimeoutsBy(t, who) ==
    {i \in 1..Len(tasks[t].timeouts) : tasks[t].timeouts[i][1] = who}
SwapDone(t) == tasks[t].role_removed /\ tasks[t].role_added
SignalsRan(t) == tasks[t].ran # {}

C2_OneWarningThenStop ==
    \A t \in TaskIds :
        tasks[t].deleted =>
            /\ ~tasks[t].raid_checked /\ ~SignalsRan(t)
            /\ IF tasks[t].pc = "curse_warn" THEN tasks[t].warned = <<>>
               ELSE /\ Len(tasks[t].warned) = 1
                    /\ CurseWarned(t)
                    /\ warnings[Scope(tasks[t].msg)] = CurseCount(t)

C2_Witness ==
    \E t \in TaskIds :
        /\ tasks[t].deleted /\ tasks[t].pc = "done"
        /\ Len(tasks[t].warned) = 1 /\ ~tasks[t].raid_checked /\ ~SignalsRan(t)

\* C3: a curse violation whose warning count is exactly 1 deletes the
\* message and applies neither a timeout nor a role change, whatever
\* duration the table returns for the count.
C3_FirstCurseOnlyDeletes ==
    \A t \in TaskIds :
        (CurseWarned(t) /\ CurseCount(t) = 1) =>
            /\ tasks[t].deleted
            /\ tasks[t].timeouts = <<>> /\ tasks[t].raid_timeout = 0
            /\ ~tasks[t].role_removed /\ ~tasks[t].role_added

C3_Witness ==
    \E t \in TaskIds :
        /\ CurseWarned(t) /\ CurseCount(t) = 1 /\ tasks[t].pc = "done"
        /\ tasks[t].timeout_duration > 0 /\ tasks[t].escalation = "log"

C6_SignalTimeoutFromFive ==
    \A t \in TaskIds :
        \A i \in 1..Len(tasks[t].warned) :
            (tasks[t].warned[i][1] \in SignalSet /\ tasks[t].warned[i][2] < 5)
                => TimeoutsBy(t, tasks[t].warned[i][1]) = {}

C6_Witness ==
    \E t \in TaskIds :
        /\ \E i \in 1..Len(tasks[t].warned) :
              /\ tasks[t].warned[i] = <<"mentions", 4>>
              /\ TimeoutsBy(t, "mentions") = {}
        /\ \E i \in 1..Len(tasks[t].warned) :
              /\ tasks[t].warned[i] = <<"emoji", 5>>
              /\ TimeoutsBy(t, "emoji") # {}

\* C10: a message without the bot prefix is never raid-checked: its run
\* records no raid event and applies no anti-raid timeout.
C10_NoRaidCheckForPlain ==
    \A t \in TaskIds :
        (Started(t) /\ ~tasks[t].msg.prefixed) =>
            /\ ~tasks[t].raid_checked /\ ~tasks[t].raid_fired
            /\ tasks[t].raid_timeout = 0

C10_Witness ==
    \E t \in TaskIds :
        /\ ~tasks[t].msg.prefixed /\ tasks[t].pc = "done" /\ tasks[t].ran = SignalSet
        /\ MessageCount(temporary_actions, tasks[t].msg.guild_id, tasks[t].msg.user_id)
              >= 4

\* C11: when raid detection fires, the raid check appends no warning and
\* leaves the ledger as it is, and the timeout it applies is 300 seconds
\* whatever the author's warning count: no step of check_for_raid_activity
\* changes the ledger or the run's warnings, a raid timeout is 300 seconds,
\* and a run that ends in the raid check has warned nobody.
C11_RaidBypassesLedger ==
    [][\A t \in TaskIds :
          (tasks[t].pc \in {"raid", "raid_timeout"} /\ tasks'[t].pc # tasks[t].pc) =>
              /\ warnings' = warnings
              /\ tasks'[t].warned = tasks[t].warned
              /\ tasks'[t].raid_timeout \in {0, 300}
              /\ (tasks'[t].pc = "done" /\ tasks'[t].raid_fired)
                    => (tasks'[t].raid_timeout = 300 /\ tasks'[t].warned = <<>>)]_vars

C11_Witness ==
    \E t \in TaskIds :
        /\ tasks[t].raid_fired /\ tasks[t].pc = "done" /\ ~SignalsRan(t)
        /\ tasks[t].raid_timeout = 300 /\ tasks[t].warned = <<>>
        /\ warnings[Scope(tasks[t].msg)] = 5

\* C12: the warning count of a (guild, user) pair never decreases: no step
\* of the pipeline (handle, the curse check, the raid check, the four
\* content-signal detectors, their escalations) lowers or resets it.
C12_LedgerMonotonic ==
    [][\A s \in Scopes : warnings'[s] >= warnings[s]]_vars

C12_Witness ==
    \E t \in TaskIds :
        /\ tasks[t].pc = "done" /\ Len(tasks[t].warned) = 3
        /\ tasks[t].warned[1][2] = 5 /\ tasks[t].warned[3][2] = 7
        /\ tasks[t].timeouts # <<>>
        /\ warnings[Scope(tasks[t].msg)] = 7

MentionsChecked(t) == "mentions" \in tasks[t].ran
MentionsWarned(t) ==
    \E i \in 1..Len(tasks[t].warned) : tasks[t].warned[i][1] = "mentions"
mention_count(t) == tasks[t].msg.user_mentions + tasks[t].msg.role_mentions

\* C17: the mass-mention check raises its warning exactly for a message
\* whose user mentions plus role mentions total more than 5 (exactly 5 raises
\* none), and it never deletes the message; the warning is recorded once the
\* channel warning has been sent.
C17_MentionsAboveFive ==
    \A t \in TaskIds :
        MentionsChecked(t) =>
            /\ ("mentions" \in tasks[t].fired) <=> (mention_count(t) > 5)
            /\ MentionsWarned(t) => mention_count(t) > 5
            /\ ~tasks[t].deleted
            /\ (mention_count(t) > 5 /\ tasks[t].pc = "done") => MentionsWarned(t)

C17_Witness ==
    \E t \in TaskIds :
        /\ MentionsChecked(t) /\ mention_count(t) = 6 /\ tasks[t].pc = "done"
        /\ MentionsWarned(t) /\ ~tasks[t].deleted /\ tasks[t].msg.prefixed

\* C18 as claimed: the deletion of the warning notification 5 seconds later
\* is left to a deferred task, so that a pipeline that has sent its
\* notification is never held by the delay: its escalation and its remaining
\* detectors can take their next step at once.
C18_AsClaimed ==
    \A t \in TaskIds :
        tasks[t].pc \in {"curse_sleep", "signal_sleep"} => tasks[t].sleep_left = 0

\* C19 as claimed: a platform call that raises is caught for that action
\* alone: the run of the message is not left, and once its content-signal
\* detectors have started, all four of them are attempted.
C19_AsClaimed ==
    \A t \in TaskIds :
        tasks[t].failed =>
            /\ tasks[t].pc # "crashed"
            /\ (Ended(t) /\ SignalsRan(t)) => tasks[t].ran = SignalSet

-----------------------------------------------------------------------------
(* Properties of interleaved pipelines (SpecConc: the ledger starts at 0,  *)
(* and every task carries one message).                                    *)
\* the add_warning calls made so far for scope s, as <<task, position>>
WarningsOf(s) ==
    UNION {{<<t, i>> : i \in 1..Len(tasks[t].warned)} :
              t \in {u \in TaskIds : Scope(tasks[u].msg) = s}}
ReturnedCounts(s) == {tasks[c[1]].warned[c[2]][2] : c \in WarningsOf(s)}

SpamCheckedTasks(key) ==
    {t \in TaskIds : /\ "spam" \in tasks[t].ran
                     /\ <<tasks[t].msg.guild_id, tasks[t].msg.user_id,
                          tasks[t].msg.content_hash>> = key}
RaidCheckedTasks(s) == {t \in TaskIds : tasks[t].raid_checked /\ Scope(tasks[t].msg) = s}

\* C16: the insert and the count of one check are not separated by the
\* check of another message of the same (guild, user): when the pipelines of
\* N messages interleave within one window, the N counts returned to the
\* spam checks of one text are exactly 1..N, and so are the N counts
\* returned to the raid checks; every count is the number of checks made so
\* far in the window, the own one included.
C16_CountsOneToN ==
    /\ \A key \in DOMAIN spam_seen :
          LET T == SpamCheckedTasks(key) IN
          /\ \A t \in T : tasks[t].spam_first <= 30
                             => tasks[t].similar_count = tasks[t].spam_nth
          /\ (\A t \in T : tasks[t].spam_first <= 30)
                => {tasks[t].similar_count : t \in T} = 1..Cardinality(T)
    /\ \A s \in Scopes :
          LET T == RaidCheckedTasks(s) IN
          /\ \A t \in T : tasks[t].raid_count = tasks[t].raid_nth
          /\ Len(raid_seen[s]) = Cardinality(T)
                => {tasks[t].raid_count : t \in T} = 1..Cardinality(T)

C16_Witness ==
    /\ tasks[1].raid_count = 2 /\ tasks[2].raid_count = 1
    /\ tasks[1].similar_count = 2 /\ tasks[2].similar_count = 1
    /\ Len(raid_seen[<<"g1", "u1">>]) = 2

-----------------------------------------------------------------------------
(* Properties of the windows (SpecSpam, SpecRaid).  Times are the times at *)
(* which check_for_spam and check_for_raid_activity read time.time().      *)
SpamChecked(t) == "spam" \in tasks[t].ran
SpamWarned(t) == \E i \in 1..Len(tasks[t].warned) : tasks[t].warned[i][1] = "spam"

\* C7: while all messages of one user with one case-folded text lie within
\* 30 seconds, the spam check raises no warning for the 1st to the 4th and
\* raises one for the 5th (the warning is sent and recorded unless a call
\* of that run fails).
C7_SpamOnFifth ==
    \A t \in TaskIds :
        (SpamChecked(t) /\ tasks[t].spam_first <= 30) =>
            /\ tasks[t].spam_nth <= 4 => ("spam" \notin tasks[t].fired /\ ~SpamWarned(t))
            /\ tasks[t].spam_nth = 5 => "spam" \in tasks[t].fired
            /\ (tasks[t].spam_nth = 5 /\ tasks[t].pc = "done" /\ ~tasks[t].failed)
                  => SpamWarned(t)

C7_Witness ==
    \E t \in TaskIds :
        /\ tasks[t].spam_nth = 5 /\ tasks[t].spam_first = 30
        /\ tasks[t].pc = "done" /\ SpamWarned(t)

\* C8: while every two consecutive messages of one user with one text are
\* 31 or more seconds apart, the spam check never raises a warning.
C8_SpacedNeverSpam ==
    \A t \in TaskIds :
        (SpamChecked(t) /\ tasks[t].spam_spaced) =>
            ("spam" \notin tasks[t].fired /\ ~SpamWarned(t))

C8_Witness ==
    \E t \in TaskIds :
        /\ SpamChecked(t) /\ tasks[t].spam_spaced /\ tasks[t].spam_nth >= 5
        /\ tasks[t].pc = "done"

-----------------------------------------------------------------------------
(* Properties of the recorded counts (SpecWindow).  An event is live at    *)
(* the present instant when its expires_at is not earlier than it.         *)
LiveEvents(store, g, u, type, h) ==
    {i \in 1..Len(store) :
        /\ store[i].guild_id = g /\ store[i].user_id = u
        /\ store[i].action_type = type /\ store[i].content_hash = h
        /\ store[i].expires_at >= current_time}

ExpiredEvents(store, g, u, type) ==
    {i \in 1..Len(store) :
        /\ store[i].guild_id = g /\ store[i].user_id = u
        /\ store[i].action_type = type
        /\ store[i].expires_at < current_time}

SpamStep(t) == AtSignal(t, "spam") /\ "spam" \in tasks'[t].ran
RaidStep(t) == tasks[t].pc = "raid" /\ tasks'[t].raid_checked

\* C14: the count a spam check or a raid check obtains when it records its
\* event equals the number of stored events of the same guild, user,
\* category and fingerprint that are live (occurred within the last
\* spam_timeframe / raid_timeframe seconds, both ends included), the new
\* event among them; an event whose expires_at is earlier than the present
\* instant is not counted.  For the raid check the count is also the number
\* of raid checks of the last 5 seconds, and for a text first seen at most
\* 30 seconds ago the spam count is the number of its spam checks.
C14_CountIsLiveEvents ==
    [][\A t \in TaskIds :
          LET m == tasks[t].msg IN
          /\ SpamStep(t) =>
                /\ tasks'[t].similar_count =
                      Cardinality(LiveEvents(temporary_actions', m.guild_id, m.user_id,
                                             "spam_check", m.content_hash))
                /\ tasks'[t].similar_count >= 1
                /\ tasks'[t].spam_first <= 30
                      => tasks'[t].similar_count = tasks'[t].spam_nth
          /\ RaidStep(t) =>
                /\ tasks'[t].raid_count =
                      Cardinality(LiveEvents(temporary_actions', m.guild_id, m.user_id,
                                             "message", ""))
                /\ tasks'[t].raid_count = Len(raid_seen'[Scope(m)])
                /\ tasks'[t].raid_count >= 1]_vars

\* a spam check that counted the event of exactly 30 seconds ago and left
\* out an older one of the same text
C14_Witness ==
    \E t \in TaskIds :
        LET m == tasks[t].msg
            same == {i \in 1..Len(temporary_actions) :
                        SpamQueryAnyTime(temporary_actions[i], m.guild_id, m.user_id,
                                         m.content_hash)} IN
        /\ SpamChecked(t) /\ tasks[t].similar_count = 2 /\ tasks[t].spam_nth = 3
        /\ \E i \in same : temporary_actions[i].timestamp = current_time
        /\ \E i \in same : temporary_actions[i].timestamp = current_time - 30
        /\ \E i \in same : temporary_actions[i].expires_at < current_time

\* C15 as claimed: after a spam check or a raid check has recorded its
\* event, the store holds no event of the same guild, user and category
\* whose expires_at is earlier than the present instant.
C15_AsClaimed ==
    [][\A t \in TaskIds :
          LET m == tasks[t].msg IN
          /\ SpamStep(t) =>
                ExpiredEvents(temporary_actions', m.guild_id, m.user_id, "spam_check") = {}
          /\ RaidStep(t) =>
                ExpiredEvents(temporary_actions', m.guild_id, m.user_id, "message") = {}]_vars

-----------------------------------------------------------------------------
(* Properties of a run with storage unavailable (SpecStorage) *)
\* C20 as claimed: when a call of the ledger or of the window store raises,
\* the run of the message is not left: a deleted message still gets its
\* channel warning, and once the content-signal detectors have started, all
\* four of them are attempted.
C20_AsClaimed ==
    \A t \in TaskIds :
        tasks[t].storage_failed =>
            /\ tasks[t].pc # "crashed"
            /\ (Ended(t) /\ SignalsRan(t)) => tasks[t].ran = SignalSet

\* C21 as claimed: an exception raised inside one detector does not abort
\* the rest of the pipeline: a run in which a call raised, and which neither
\* deleted the message nor found a raid, still runs all four content-signal
\* detectors.
C21_AsClaimed ==
    \A t \in TaskIds :
        (tasks[t].failed /\ Ended(t) /\ ~tasks[t].deleted /\ ~tasks[t].raid_fired
           /\ (tasks[t].curse_checked \/ SignalsRan(t)))
            => tasks[t].ran = SignalSet

\* C22: when the banned-term list cannot be read, the curse check fails open:
\* it reports no violation, does not delete the message, appends no warning and
\* raises nothing, and the run goes on with the raid check and, unless the raid
\* check ends it or a later call raises, with all four content-signal detectors.
C22_FailsOpen ==
    \A t \in TaskIds :
        (tasks[t].curse_checked /\ ~tasks[t].list_read) =>
            /\ ~tasks[t].curse_found
            /\ ~tasks[t].deleted
            /\ ~CurseWarned(t)
            /\ tasks[t].pc = "raid" \/ tasks[t].raid_checked
            /\ (Ended(t) /\ ~tasks[t].failed /\ ~tasks[t].raid_fired)
                  => tasks[t].ran = SignalSet

C22_Witness ==
    \E t \in TaskIds :
        /\ tasks[t].curse_checked /\ ~tasks[t].list_read
        /\ tasks[t].msg.banned
        /\ tasks[t].pc = "done"
        /\ tasks[t].raid_checked
        /\ tasks[t].ran = SignalSet

\* C23: every run that has started reaches its end (handle or
\* run_moderation_checks returns, or an exception leaves it), provided every
\* platform and storage call returns or fails; and no action is retried: within
\* one run no detector attempts its delete, warn, timeout or role change twice.
Running == \E t \in TaskIds : Started(t) /\ ~Ended(t)
NoneRunning == \A t \in TaskIds : Finished(t)
NoRetry == \A t \in TaskIds : ~tasks[t].retried

C23_TerminatesWithoutRetry == [](NoRetry) /\ (Running ~> NoneRunning)

C23_Witness ==
    \E t \in TaskIds :
        /\ Ended(t)
        /\ {<<"curse", "delete">>, <<"curse", "warn">>, <<"curse", "timeout">>}
              \subseteq tasks[t].attempted
        /\ ~tasks[t].retried

-----------------------------------------------------------------------------
(* Properties of pipelines of different (guild, user) pairs (SpecPart).    *)
Owner(t) == <<tasks[t].msg.guild_id, tasks[t].msg.user_id>>
Moved(t) == [tasks[t] EXCEPT !.sleep_left = 0] # [tasks'[t] EXCEPT !.sleep_left = 0]
EventsOf(store, s) ==
    {i \in 1..Len(store) : store[i].guild_id = s[1] /\ store[i].user_id = s[2]}
WarnedTasks(s) == {t \in TaskIds : Owner(t) = s /\ Len(tasks[t].warned) > 0}

\* what the runs of pair s were told, against what pair s itself did so far
OwnCounts(s) ==
    /\ warnings[s] = PartLedger[s] + Cardinality(WarnedTasks(s))
    /\ \A t \in TaskIds : Owner(t) = s =>
          /\ tasks[t].raid_checked =>
                tasks[t].raid_count = Cardinality({u \in TaskIds :
                    /\ Owner(u) = s /\ tasks[u].raid_checked
                    /\ tasks[u].raid_nth <= tasks[t].raid_nth})
          /\ "spam" \in tasks[t].ran =>
                tasks[t].similar_count = Cardinality({u \in TaskIds :
                    /\ Owner(u) = s /\ "spam" \in tasks[u].ran
                    /\ tasks[u].spam_nth <= tasks[t].spam_nth})
          /\ \A i \in 1..Len(tasks[t].warned) :
                tasks[t].warned[i][2] \in
                    (PartLedger[s] + 1)..(PartLedger[s] + Cardinality(WarnedTasks(s)))
          /\ tasks[t].escalation # "" =>
                tasks[t].escalation =
                    IF tasks[t].warning_count >= curse_timeout_from
                    THEN "timeout" ELSE "none"

\* C24: moderation state is partitioned by (guild, user).  A step in which no
\* run of the pair s moves changes neither the warning total of s nor its
\* recorded spam / raid events; and every count returned to a run of s, and
\* its timeout decision, is the one the earlier runs of s alone account for,
\* in every interleaving with the runs of other users and other guilds.
C24_Partitioned ==
    [][\A s \in PartScopes :
          /\ (\A t \in TaskIds : Moved(t) => Owner(t)' # s) =>
                /\ warnings'[s] = warnings[s]
                /\ Cardinality(EventsOf(temporary_actions', s))
                      = Cardinality(EventsOf(temporary_actions, s))
          /\ OwnCounts(s)']_vars

C24_Witness ==
    /\ Owner(1) = <<"g1", "u1">> /\ Owner(2) = <<"g2", "u1">>
    /\ Started(1) /\ Started(2)
    /\ tasks[2].warned = <<(<<"curse", 1>>)>> /\ tasks[2].escalation = "none"
    /\ tasks[1].warned = <<(<<"curse", 2>>)>> /\ tasks[1].escalation = "timeout"
    /\ tasks[1].pc = "curse_log" /\ tasks[2].pc = "done"

-----------------------------------------------------------------------------
(* Properties of the four detection methods (SpecCurse).                   *)
ScanDone(t) == tasks[t].pc = "scanned" /\ tasks[t].list_read
Scans(t, text, terms) ==
    tasks[t].content = text /\ tasks[t].local_curse_words = terms

\* C25: with the banned term "badword", the text "b4dw0rd" is detected by the
\* leetspeak method: the exact-word method finds nothing and the second
\* method reports the term; and "this is fine" is reported by none of the four
\* methods.
C25_LeetspeakExample ==
    \A t \in TaskIds :
        /\ (Scans(t, <<"b", "4", "d", "w", "0", "r", "d">>, <<<<"b", "a", "d", "w", "o", "r", "d">>>>) /\ ScanDone(t)) =>
              /\ tasks[t].found_by = 2
              /\ tasks[t].evaluated = <<1, 2>>
              /\ tasks[t].curse_words = <<<<"b", "a", "d", "w", "o", "r", "d">>>>
        /\ (Scans(t, <<"t", "h", "i", "s", " ", "i", "s", " ", "f", "i", "n", "e">>, <<<<"b", "a", "d", "w", "o", "r", "d">>>>) /\ ScanDone(t)) =>
              /\ tasks[t].evaluated = <<1, 2, 3, 4>>
              /\ tasks[t].curse_words = <<>>

C25_Witness ==
    \E t \in TaskIds :
        /\ Scans(t, <<"b", "4", "d", "w", "0", "r", "d">>, <<<<"b", "a", "d", "w", "o", "r", "d">>>>)
        /\ ScanDone(t)
        /\ tasks[t].found_by = 2

\* C26: the methods run in the order exact words, leetspeak, despaced
\* containment, fuzzy pattern, and a method is evaluated only when all earlier
\* ones found nothing; "b a d w o r d" is detected by the despaced containment,
\* after the exact and the leetspeak method found nothing.
C26_OrderedShortCircuit ==
    \A t \in TaskIds :
        /\ \A i \in 1..Len(tasks[t].evaluated) : tasks[t].evaluated[i] = i
        /\ tasks[t].found_by # 0 => Len(tasks[t].evaluated) = tasks[t].found_by
        /\ (ScanDone(t) /\ tasks[t].found_by = 0) => tasks[t].evaluated = <<1, 2, 3, 4>>
        /\ (Scans(t, <<"b", " ", "a", " ", "d", " ", "w", " ", "o", " ", "r", " ", "d">>, <<<<"b", "a", "d", "w", "o", "r", "d">>>>) /\ ScanDone(t)) =>
              /\ tasks[t].found_by = 3
              /\ tasks[t].curse_words = <<<<"b", "a", "d", "w", "o", "r", "d">>>>

C26_Witness ==
    \E t \in TaskIds :
        /\ Scans(t, <<"b", " ", "a", " ", "d", " ", "w", " ", "o", " ", "r", " ", "d">>, <<<<"b", "a", "d", "w", "o", "r", "d">>>>)
        /\ ScanDone(t)
        /\ tasks[t].evaluated = <<1, 2, 3>>
        /\ tasks[t].found_by = 3

\* the text holds the first character of the term, a filler of 1 to
\* (length - 2) characters and the last character, on a span of at least 70%
\* of the length of the term
FuzzyShape(term, content) ==
    \E i \in 1..Len(content), k \in 1..(Len(term) - 2) :
        /\ i + k + 1 <= Len(content)
        /\ content[i] = term[1]
        /\ content[i + k + 1] = term[Len(term)]
        /\ (k + 2) * 10 >= Len(term) * 7

\* C27 as claimed: a text that methods 1 to 3 do not catch and that has the
\* fuzzy shape of a banned term longer than 3 characters is detected by the
\* fuzzy method; a term of 3 or fewer characters is never reported by it.
C27_AsClaimed ==
    \A t \in TaskIds :
        (ScanDone(t) /\ tasks[t].found_by \notin {1, 2, 3}) =>
            \A i \in 1..Len(tasks[t].local_curse_words) :
                LET term == tasks[t].local_curse_words[i] IN
                /\ (Len(term) > 3 /\ FuzzyShape(term, tasks[t].content))
                      => InSeq(term, tasks[t].curse_words)
                /\ Len(term) <= 3 => ~InSeq(term, tasks[t].curse_words)

-----------------------------------------------------------------------------
-----------------------------------------------------------------------------
NotModerated(m) == m.author_bot \/ ~m.has_content \/ m.guild_id = NoGuild

C30_IgnoredEntirely ==
    [][\A t \in TaskIds :
          /\ (tasks[t].pc = "handle" /\ NotModerated(tasks[t].msg)) =>
                UNCHANGED <<warnings, temporary_actions, spam_seen, raid_seen>>
          /\ (tasks'[t].pc # "idle" /\ NotModerated(tasks'[t].msg)) =>
                tasks'[t] \in {NewTask(tasks'[t].msg),
                               [NewTask(tasks'[t].msg) EXCEPT !.pc = "done"]}]_vars

C30_Witness ==
    \E t \in TaskIds :
        /\ tasks[t].msg.author_bot
        /\ tasks[t].pc = "done"
        /\ ~tasks[t].executed /\ tasks[t].ran = {} /\ tasks[t].attempted = {}

-----------------------------------------------------------------------------
\* C31: a prefixed message without command text, or whose command word is not
\* "manage" (the aliases of the registry included), never executes a command
\* and is never given to a moderation check; its run only sends one reply to
\* the channel, and ends when that reply is sent or the send raises.
C31_UnknownCommandOnlyReplies ==
    \A t \in TaskIds :
        (Started(t) /\ ~NotModerated(tasks[t].msg) /\ tasks[t].msg.prefixed
           /\ tasks[t].msg.cmd # "manage") =>
            /\ tasks[t].pc \in {"handle", "send_usage", "done", "crashed"}
            /\ ~tasks[t].executed
            /\ ~tasks[t].curse_checked /\ ~tasks[t].raid_checked
            /\ tasks[t].ran = {} /\ tasks[t].warned = <<>>
            /\ tasks[t].attempted = {}
            /\ tasks[t].replied <=> tasks[t].pc = "done"

C31_Witness ==
    \E t \in TaskIds :
        /\ tasks[t].msg.prefixed /\ tasks[t].msg.cmd \in command_aliases
        /\ tasks[t].msg.banned
        /\ tasks[t].pc = "done" /\ tasks[t].replied

C33_SignalsKeepTheMessage ==
    \A t \in TaskIds :
        /\ \A a \in tasks[t].attempted :
              a[1] \in SignalSet => a[2] \in {"warn", "timeout", "delete_notification"}
        /\ tasks[t].deleted => (tasks[t].curse_found /\ <<"curse", "delete">> \in tasks[t].attempted)
        /\ tasks[t].fired # {} => ~tasks[t].deleted

C33_Witness ==
    \E t \in TaskIds :
        /\ tasks[t].fired = {"mentions", "emoji", "caps"}
        /\ {NoticeDelete("mentions"), NoticeDelete("emoji"), NoticeDelete("caps")}
              \subseteq tasks[t].attempted
        /\ tasks[t].pc = "done"
        /\ ~tasks[t].deleted

\* the content-signal conditions the message of run t satisfies: the three
\* stateless ones as the message has them, spam as its check found it
Satisfied(t) ==
    {name \in SignalSet :
        \/ name = "mentions" /\ MentionsFire(tasks[t].msg)
        \/ name = "emoji" /\ EmojiFires(tasks[t].msg)
        \/ name = "caps" /\ CapsFire(tasks[t].msg)
        \/ name = "spam" /\ "spam" \in tasks[t].fired}
SignalWarnings(t) ==
    {i \in 1..Len(tasks[t].warned) : tasks[t].warned[i][1] \in SignalSet}

\* C34 as claimed: for a message that reaches the content-signal detectors,
\* the run adds exactly one warning for every detector whose condition the
\* message satisfies, and every such detector decides its escalation from the
\* count returned to it.
C34_AsClaimed ==
    \A t \in TaskIds :
        (Ended(t) /\ SignalsRan(t)) =>
            /\ Cardinality(SignalWarnings(t)) = Cardinality(Satisfied(t))
            /\ \A name \in Satisfied(t) :
                  \E i \in SignalWarnings(t) :
                     /\ tasks[t].warned[i][1] = name
                     /\ (SignalEscalates(tasks[t].warned[i][2])
                           /\ get_timeout_duration(tasks[t].warned[i][2]) > 0)
                          => <<name, "timeout">> \in tasks[t].attempted

\* C36 as claimed: the curse role swap is all-or-nothing; no run ends with
\* the member role removed from the author while the demoted role was not
\* added and no fallback timeout was applied.
C36_AsClaimed ==
    \A t \in TaskIds :
        Ended(t) =>
            ~(/\ tasks[t].role_removed
              /\ ~tasks[t].role_added
              /\ TimeoutsBy(t, "curse") = {})

\* the terms of the list that are not empty, and a text that none of the four
\* methods matches against them
NonEmptyTerms(local_curse_words) ==
    LET Present(w) == w # <<>> IN SelectSeq(local_curse_words, Present)
Clean(content, local_curse_words) ==
    LET terms == NonEmptyTerms(local_curse_words) IN
    /\ exact_words(<<>>, content, terms) = <<>>
    /\ leet_words(<<>>, content, terms) = <<>>
    /\ despaced_words(<<>>, content, terms) = <<>>
    /\ fuzzy_words(<<>>, content, terms) = <<>>

\* C35 as claimed: whatever the term list, blank lines included, a message
\* that none of the four methods matches against a non-empty term is reported
\* clean (nothing found, so it is neither deleted nor warned).
C35_AsClaimed ==
    \A t \in TaskIds :
        (ScanDone(t) /\ Clean(tasks[t].content, tasks[t].local_curse_words))
            => tasks[t].curse_words = <<>>

\* which part of the engine wrote the audit entry of run t (352 or 781; the
\* content-signal detectors write none), and which parts applied a sanction
Audits(t) ==
    IF ~tasks[t].audited THEN {}
    ELSE IF tasks[t].curse_found THEN {"curse"} ELSE {"raid"}
Sanctions(t) ==
    {who \in SignalSet \cup {"curse"} : TimeoutsBy(t, who) # {}}
        \cup (IF SwapDone(t) THEN {"curse"} ELSE {})
        \cup (IF tasks[t].raid_timeout > 0 THEN {"raid"} ELSE {})

\* C37 as claimed: every timeout or role swap the engine applies is followed
\* by an audit entry of the part that applied it, and an audit entry with a
\* non-zero duration is written only when a timeout of that duration was
\* applied.
C37_AsClaimed ==
    \A t \in TaskIds :
        Ended(t) =>
            /\ Sanctions(t) \subseteq Audits(t)
            /\ ("curse" \in Audits(t) /\ tasks[t].timeout_duration > 0) =>
                  \E i \in TimeoutsBy(t, "curse") :
                     tasks[t].timeouts[i][2] = tasks[t].timeout_duration

\* the chat of the file that the last /chat response names, if any
Persisted(t) ==
    {i \in 1..Len(tasks[t].chats_file) :
        tasks[t].chats_file[i].id = tasks[t].reply.chat_id}

\* C38 as claimed: after /chat answered success with a chat_id, the chat list
\* holds a chat of that id whose last two messages are the user message and
\* the bot response of the request and whose message_count is the number of
\* its messages, also when the request created the chat.
C38_AsClaimed ==
    \A t \in TaskIds :
        tasks[t].reply.success =>
            \E i \in Persisted(t) :
                LET chat_session == tasks[t].chats_file[i]
                    n == Len(chat_session.messages) IN
                /\ n >= 2
                /\ chat_session.messages[n - 1] = <<"user", tasks[t].reply.message>>
                /\ chat_session.messages[n] = <<"bot", tasks[t].reply.response>>
                /\ chat_session.message_count = n

\* C39 as claimed: in every interleaving of run_bot and the thread start_bot,
\* once bot.run has returned and the thread has finished the flag bot_started
\* is false, and the status page reports "running" for no bot whose thread
\* has finished.
C39_AsClaimed ==
    \A t \in TaskIds :
        /\ (tasks[t].thread = "finished" /\ tasks[t].pc = "returned")
              => ~tasks[t].bot_started
        /\ \A i \in 1..Len(tasks[t].reports) :
              tasks[t].reports[i][2] = "finished"
                  => tasks[t].reports[i][1] # "running"

====
